---------------------------- MODULE Spec2Model ----------------------------
(***************************************************************************)
(* A model of fastapi_service/nlp_engine.py (and the request layer of      *)
(* fastapi_service/main.py): the lazily loaded embedding model, the FAISS   *)
(* vector store, the Perplexity client, the response parser, the fallback  *)
(* generator and the four flows (process_document, ask_document,           *)
(* summarize_text, extract_key_points).                                    *)
(*                                                                         *)
(* Text.  A Python str is a sequence of one-character strings, one element *)
(* per code point; the backtick and the two non-ASCII code points of the   *)
(* source are the elements "U+0060", "U+2022" (bullet) and "U+1F4CC"       *)
(* (pushpin).                                                              *)
(*                                                                         *)
(* Values.  A Python dict is a function from keys (texts) to values; a     *)
(* value is held as its JSON text: the str s as Quote(s), the int n as its *)
(* decimal digits, True/False as true/false, a list as [...].  A value     *)
(* parsed by json.loads is the slice of the input it was read from.        *)
(***************************************************************************)
EXTENDS Integers, Sequences, FiniteSets, TLC

---------------------------------------------------------------------------
(* Text primitives (Python str methods and the re calls of the source)     *)

\* Body(value), with the value computed once (a local variable of the source)
With(value, Body(_)) == CHOOSE r \in {Body(v) : v \in {value}} : TRUE

SetMin(S) == CHOOSE x \in S : \A y \in S : x <= y
SetMax(S) == CHOOSE x \in S : \A y \in S : x >= y
MinOf(a, b) == IF a <= b THEN a ELSE b

\* str.strip() / regex \s : the whitespace characters
WS == {" ", "\t", "\n", "\r", "\f"}
Digits == {"0", "1", "2", "3", "4", "5", "6", "7", "8", "9"}

\* s[:n]
Prefix(s, n) == SubSeq(s, 1, MinOf(n, Len(s)))
\* s[i-1:] (1-based i)
Suffix(s, i) == SubSeq(s, i, Len(s))

\* s.strip()
Strip(s) ==
    With(s, LAMBDA t :
    With({i \in DOMAIN t : t[i] \notin WS}, LAMBDA nws :
        IF nws = {} THEN <<>>
        ELSE SubSeq(t, SetMin(nws),
                    CHOOSE j \in nws : \A m \in (j + 1)..Len(t) : t[m] \in WS)))

\* `not s or not s.strip()`
IsBlank(s) == With(s, LAMBDA t : \A i \in DOMAIN t : t[i] \in WS)

\* s.startswith(p) at 1-based position i
HasAt(s, i, p) == i >= 1 /\ i + Len(p) - 1 <= Len(s) /\ SubSeq(s, i, i + Len(p) - 1) = p

\* the end (exclusive) of the maximal run of characters of C starting at i
RunEnd(s, i, C) ==
    IF \A j \in i..Len(s) : s[j] \in C THEN Len(s) + 1
    ELSE CHOOSE j \in i..Len(s) : s[j] \notin C /\ \A m \in i..(j - 1) : s[m] \in C

\* s.partition(sep): the text before the first sep, and the text after it
Partition(s, sep) ==
    With(s, LAMBDA t :
        IF \A i \in 1..Len(t) : ~HasAt(t, i, sep)
        THEN [found |-> FALSE, head |-> t, rest |-> <<>>]
        ELSE With(CHOOSE i \in 1..Len(t) :
                     HasAt(t, i, sep) /\ \A m \in 1..(i - 1) : ~HasAt(t, m, sep),
                  LAMBDA i : [found |-> TRUE, head |-> SubSeq(t, 1, i - 1),
                              rest |-> Suffix(t, i + Len(sep))]))

\* s.split(sep) for a non-empty literal sep
RECURSIVE SplitOn(_, _)
SplitOn(s, sep) ==
    With(Partition(s, sep), LAMBDA p :
        IF p.found THEN <<p.head>> \o SplitOn(p.rest, sep) ELSE <<p.head>>)

\* the text before the first run of characters of C, and the text after it
PartitionRun(s, C) ==
    With(s, LAMBDA t :
        IF \A i \in DOMAIN t : t[i] \notin C
        THEN [found |-> FALSE, head |-> t, rest |-> <<>>]
        ELSE With(CHOOSE i \in DOMAIN t : t[i] \in C /\ \A m \in 1..(i - 1) : t[m] \notin C,
                  LAMBDA i : [found |-> TRUE, head |-> SubSeq(t, 1, i - 1),
                              rest |-> Suffix(t, RunEnd(t, i, C))]))

\* re.split(r'[C]+', s)
RECURSIVE SplitRuns(_, _)
SplitRuns(s, C) ==
    With(PartitionRun(s, C), LAMBDA p :
        IF p.found THEN <<p.head>> \o SplitRuns(p.rest, C) ELSE <<p.head>>)

\* sep.join(parts[i-1:])
RECURSIVE JoinFrom(_, _, _)
JoinFrom(parts, sep, i) ==
    IF i > Len(parts) THEN <<>>
    ELSE IF i = Len(parts) THEN parts[i]
    ELSE parts[i] \o sep \o JoinFrom(parts, sep, i + 1)

\* sep.join(parts)
Join(parts, sep) == With(parts, LAMBDA ps : JoinFrom(ps, sep, 1))

\* len(s.split()) : the number of maximal runs of non-whitespace
WordCount(s) ==
    With(s, LAMBDA t :
        Cardinality({i \in DOMAIN t : t[i] \notin WS /\ (i = 1 \/ t[i - 1] \in WS)}))

\* str(n) for n >= 0
RECURSIVE IntText(_)
IntText(n) ==
    LET d == <<"0", "1", "2", "3", "4", "5", "6", "7", "8", "9">>[(n % 10) + 1]
    IN  IF n < 10 THEN <<d>> ELSE Append(IntText(n \div 10), d)

---------------------------------------------------------------------------
(* Values: the JSON text of a Python value                                 *)

\* the value text of the str s
Quote(s) == <<"\"">> \o s \o <<"\"">>
IsStrValue(v) == Len(v) >= 2 /\ v[1] = "\"" /\ v[Len(v)] = "\""
\* the str a str value holds
Unquote(v) == SubSeq(v, 2, Len(v) - 1)
PyTrue == <<"t","r","u","e">>
PyFalse == <<"f","a","l","s","e">>
IsBoolValue(v) == v \in {PyTrue, PyFalse}
EmptyList == <<"[","]">>
EmptyDict == <<>>

\* {**a, **b}
Merge(a, b) == [k \in (DOMAIN a) \cup (DOMAIN b) |-> IF k \in DOMAIN b THEN b[k] ELSE a[k]]

---------------------------------------------------------------------------
(* json.loads, for the JSON of objects, arrays, strings without escapes,   *)
(* integers and the three literals.  An index of 0 stands for "no value    *)
(* here" (json.JSONDecodeError).                                           *)

JsonWS == {" ", "\t", "\n", "\r"}

\* the index after the whitespace that starts at i (0 for the index 0)
SkipWs(s, i) == IF i = 0 THEN 0 ELSE RunEnd(s, i, JsonWS)

\* s[i] is a quote: the index after the closing quote
StringEnd(s, i) ==
    LET close == {j \in (i + 1)..Len(s) : s[j] = "\""}
    IN  IF close = {} THEN 0
        ELSE LET j == SetMin(close)
             IN  IF \E m \in (i + 1)..(j - 1) : s[m] \in {"\n", "\r", "\t", "\\"}
                 THEN 0 ELSE j + 1

NumberEnd(s, i) ==
    LET d == IF s[i] = "-" THEN i + 1 ELSE i
        e == RunEnd(s, d, Digits)
    IN  IF e = d \/ (e - d > 1 /\ s[d] = "0") THEN 0 ELSE e

LiteralEnd(s, i) ==
    IF HasAt(s, i, PyTrue) THEN i + 4
    ELSE IF HasAt(s, i, PyFalse) THEN i + 5
    ELSE IF HasAt(s, i, <<"n","u","l","l">>) THEN i + 4
    ELSE 0

RECURSIVE ValueEnd(_, _)
RECURSIVE ElementsEnd(_, _)
RECURSIVE MembersEnd(_, _)

\* the index after the JSON value that starts at i
ValueEnd(s, i) ==
    IF i > Len(s) THEN 0
    ELSE IF s[i] = "\"" THEN StringEnd(s, i)
    ELSE IF s[i] = "{" THEN
        With(SkipWs(s, i + 1), LAMBDA j :
            IF j <= Len(s) /\ s[j] = "}" THEN j + 1 ELSE MembersEnd(s, j))
    ELSE IF s[i] = "[" THEN
        With(SkipWs(s, i + 1), LAMBDA j :
            IF j <= Len(s) /\ s[j] = "]" THEN j + 1 ELSE ElementsEnd(s, j))
    ELSE IF s[i] \in Digits \cup {"-"} THEN NumberEnd(s, i)
    ELSE LiteralEnd(s, i)

\* i is the start of an array element: the index after the closing bracket
ElementsEnd(s, i) ==
    With(ValueEnd(s, i), LAMBDA e :
    With(SkipWs(s, e), LAMBDA j :
        IF e = 0 \/ j > Len(s) THEN 0
        ELSE IF s[j] = "]" THEN j + 1
        ELSE IF s[j] = "," THEN With(SkipWs(s, j + 1), LAMBDA n : ElementsEnd(s, n))
        ELSE 0))

\* i is the start of an object key: the index after the closing brace
MembersEnd(s, i) ==
    IF i > Len(s) \/ s[i] # "\"" THEN 0
    ELSE With(StringEnd(s, i), LAMBDA k :
         With(SkipWs(s, k), LAMBDA c :
             IF k = 0 \/ c > Len(s) \/ s[c] # ":" THEN 0
             ELSE With(SkipWs(s, c + 1), LAMBDA v :
                  With(ValueEnd(s, v), LAMBDA e :
                  With(SkipWs(s, e), LAMBDA j :
                      IF e = 0 \/ j > Len(s) THEN 0
                      ELSE IF s[j] = "}" THEN j + 1
                      ELSE IF s[j] = ","
                      THEN With(SkipWs(s, j + 1), LAMBDA n : MembersEnd(s, n))
                      ELSE 0)))))

\* the dict of a well-formed object whose first key starts at i (a repeated
\* key keeps its last value)
RECURSIVE Members(_, _)
Members(s, i) ==
    With(StringEnd(s, i), LAMBDA k :
    With(SkipWs(s, SkipWs(s, k) + 1), LAMBDA v :
    With(ValueEnd(s, v), LAMBDA e :
    With(SkipWs(s, e), LAMBDA j :
    With(SubSeq(s, i + 1, k - 2) :> SubSeq(s, v, e - 1), LAMBDA here :
        IF s[j] = "}" THEN here
        ELSE With(SkipWs(s, j + 1), LAMBDA n : Members(s, n) @@ here))))))

\* json.loads(s): kind "error" (JSONDecodeError), "dict" (obj is the dict) or
\* "other" (a list, str, int, bool or None)
json_loads(text) ==
    With(text, LAMBDA s :
    With(SkipWs(s, 1), LAMBDA i :
    With(ValueEnd(s, i), LAMBDA e :
        IF e = 0 \/ SkipWs(s, e) # Len(s) + 1
        THEN [kind |-> "error", obj |-> EmptyDict]
        ELSE IF s[i] # "{" THEN [kind |-> "other", obj |-> EmptyDict]
        ELSE With(SkipWs(s, i + 1), LAMBDA j :
                 [kind |-> "dict",
                  obj |-> IF s[j] = "}" THEN EmptyDict ELSE Members(s, j)]))))

---------------------------------------------------------------------------
(* Keys and fixed texts of the source                                      *)

k_page_number == <<"p","a","g","e","_","n","u","m","b","e","r">>
k_title == <<"t","i","t","l","e">>
k_simplified_text == <<"s","i","m","p","l","i","f","i","e","d","_","t","e","x","t">>
k_image_prompt == <<"i","m","a","g","e","_","p","r","o","m","p","t">>

\* three backticks
Fence == <<"U+0060","U+0060","U+0060">>
SectionWord == <<"S","e","c","t","i","o","n"," ">>
ParserImagePrompt ==
    <<"A"," ","s","i","m","p","l","e"," ","i","n","f","o","g","r","a","p","h","i","c"," ",
      "s","u","m","m","a","r","i","z","i","n","g"," ","t","h","e"," ","k","e","y"," ",
      "p","o","i","n","t","s">>

---------------------------------------------------------------------------
(* parse_llm_json                                                          *)

\* re.sub(r'^FENCE(?:json)?\s*', '', s), FENCE the three backticks
StripFencePrefix(s) ==
    With(s, LAMBDA t :
        IF ~HasAt(t, 1, Fence) THEN t
        ELSE LET i == IF HasAt(t, 4, <<"j","s","o","n">>) THEN 8 ELSE 4
             IN  Suffix(t, RunEnd(t, i, WS)))

\* re.sub(r'\s*FENCE$', '', s), for s without a trailing newline
StripFenceSuffix(s) ==
    With(s, LAMBDA t :
        IF ~HasAt(t, Len(t) - 2, Fence) THEN t
        ELSE With({i \in 1..(Len(t) - 3) : t[i] \notin WS}, LAMBDA before :
                 IF before = {} THEN <<>> ELSE SubSeq(t, 1, SetMax(before))))

\* re.search(r'\{[\s\S]*?\}', raw): the matched text, or <<>> when none
FirstBraceSpan(raw) ==
    With(raw, LAMBDA t :
    With({i \in DOMAIN t : t[i] = "{" /\ \E j \in (i + 1)..Len(t) : t[j] = "}"},
         LAMBDA open :
        IF open = {} THEN <<>>
        ELSE With(SetMin(open), LAMBDA i :
                 SubSeq(t, i, SetMin({m \in (i + 1)..Len(t) : t[m] = "}"})))))

\* the dict the two except branches return (lines 419-424 and 428-433)
RawTextResult(raw, page_number) ==
    (k_page_number :> IntText(page_number))
    @@ (k_title :> Quote(SectionWord \o IntText(page_number)))
    @@ (k_simplified_text :> Quote(Prefix(raw, 1500)))
    @@ (k_image_prompt :> Quote(ParserImagePrompt))

\* the number of the page given only to an object that carries none
WithPageNumber_if_missing(obj, page_number) ==
    Merge(k_page_number :> IntText(page_number), obj)

\* result["page_number"] = page_number
WithPageNumber(obj, page_number) ==
    Merge(obj, k_page_number :> IntText(page_number))

parse_llm_json(raw, page_number) ==
    IF raw = <<>> THEN EmptyDict
    ELSE With(StripFenceSuffix(StripFencePrefix(Strip(raw))), LAMBDA cleaned :
         With(json_loads(cleaned), LAMBDA first :
             IF first.kind = "dict" THEN WithPageNumber(first.obj, page_number)
             ELSE IF first.kind = "other" THEN RawTextResult(raw, page_number)
             ELSE With(FirstBraceSpan(raw), LAMBDA span :
                  With(json_loads(span), LAMBDA second :
                      IF span # <<>> /\ second.kind = "dict"
                      THEN WithPageNumber(second.obj, page_number)
                      ELSE RawTextResult(raw, page_number)))))

---------------------------------------------------------------------------
(* generate_mock_response                                                  *)

\* Python None where a str is expected (an audience_level of null)
NoneValue == <<"None">>
\* f"{x}" of a str or None
Format(x) == IF x = NoneValue THEN <<"N","o","n","e">> ELSE x

MockIntro ==
    <<"H","e","r","e","'","s"," ","w","h","a","t"," ","t","h","i","s"," ","s","e",
      "c","t","i","o","n"," ","i","s"," ","a","b","o","u","t"," ","i","n"," ","s",
      "i","m","p","l","e"," ","t","e","r","m","s",":","\n","\n">>
MockImagePrompt ==
    <<"A"," ","t","e","a","m"," ","c","o","l","l","a","b","o","r","a","t","i","o",
      "n"," ","i","n","f","o","g","r","a","p","h","i","c"," ","s","h","o","w","i",
      "n","g"," ","p","r","o","j","e","c","t"," ","m","i","l","e","s","t","o","n",
      "e","s">>
Bullet == <<"U+2022", " ">>

\* re.sub(r'^[#\-*>\d.]+\s*', '', line)
StripMarkup(line) ==
    LET markup == {"#", "-", "*", ">", "."} \cup Digits
        e == RunEnd(line, 1, markup)
    IN  IF e = 1 THEN line ELSE Suffix(line, RunEnd(line, e, WS))

\* [s.strip() for s in sentences if len(s.strip()) > n]
LongSentences(sentences, n) ==
    With(sentences, LAMBDA ss :
        SelectSeq([i \in DOMAIN ss |-> Strip(ss[i])], LAMBDA t : Len(t) > n))

\* the "for sent in key_sentences" loop: one bullet line per sentence
BulletLines(key_sentences) ==
    Join([i \in DOMAIN key_sentences |-> Bullet \o key_sentences[i] \o <<".", "\n">>],
         <<>>)

generate_mock_response(page_text, page_number, audience) ==
    With(Prefix(StripMarkup(SplitOn(Strip(page_text), <<"\n">>)[1]), 80), LAMBDA stripped :
    With(LongSentences(Prefix(SplitRuns(page_text, {".", "!", "?"}), 5), 20),
         LAMBDA key_sentences :
    LET title == IF stripped = <<>>
                 THEN SectionWord \o IntText(page_number) \o <<" ","S","u","m","m",
                                                               "a","r","y">>
                 ELSE stripped
        simplified ==
            MockIntro
            \o BulletLines(key_sentences)
            \o (IF key_sentences = <<>>
                THEN Bullet \o Prefix(page_text, 300) \o <<".", ".", ".", "\n">>
                ELSE <<>>)
            \o <<"\n", "U+1F4CC">> \o <<" ","T","h","i","s"," ","s","e","c","t","i",
                                        "o","n"," ","i","s"," ","w","r","i","t","t",
                                        "e","n"," ","f","o","r"," ","a"," ">>
            \o Format(audience) \o <<" ","a","u","d","i","e","n","c","e",".">>
    IN  (k_page_number :> IntText(page_number))
        @@ (k_title :> Quote(title))
        @@ (k_simplified_text :> Quote(simplified))
        @@ (k_image_prompt :> Quote(MockImagePrompt))))

---------------------------------------------------------------------------
(* State                                                                   *)

VARIABLES
    HAS_LANGCHAIN,               \* line 41/44: the import guards, fixed at import
    HAS_FAISS,                   \* line 49/52
    HAS_EMBEDDINGS,              \* line 57/60
    HAS_OPENAI,                  \* line 65/68
    PERPLEXITY_API_KEY,          \* line 73
    _embeddings,                 \* line 84: NoneValue or the loaded model
    _embeddings_init_attempted,  \* line 85
    vector_stores,               \* the directory VECTOR_STORE_DIR: name -> saved index
    requests,                    \* the requests being served, by slot
    served,                      \* the number of requests accepted so far
    log,                         \* what the process did: counters of the calls made
    probe                        \* a function under test: its input and its result

vars == <<HAS_LANGCHAIN, HAS_FAISS, HAS_EMBEDDINGS, HAS_OPENAI, PERPLEXITY_API_KEY,
          _embeddings, _embeddings_init_attempted, vector_stores, requests, served,
          log, probe>>

env == <<HAS_LANGCHAIN, HAS_FAISS, HAS_EMBEDDINGS, HAS_OPENAI, PERPLEXITY_API_KEY>>

---------------------------------------------------------------------------
(* get_embeddings                                                          *)

\* the HuggingFaceEmbeddings object
EmbeddingModel == <<"all-MiniLM-L6-v2">>

\* get_embeddings without the check of line 94: a load that failed is tried
\* again by the next call
get_embeddings_retry(load_ok) ==
    IF _embeddings # NoneValue
    THEN [ret |-> _embeddings, emb |-> _embeddings,
          attempted |-> _embeddings_init_attempted, loads |-> 0]
    ELSE IF ~HAS_EMBEDDINGS
    THEN [ret |-> NoneValue, emb |-> NoneValue, attempted |-> TRUE, loads |-> 0]
    ELSE IF load_ok
    THEN [ret |-> EmbeddingModel, emb |-> EmbeddingModel, attempted |-> TRUE, loads |-> 1]
    ELSE [ret |-> NoneValue, emb |-> NoneValue, attempted |-> TRUE, loads |-> 1]

\* get_embeddings(); load_ok: whether the HuggingFaceEmbeddings constructor
\* returns (it raises otherwise).  ret is the value returned, emb and
\* attempted are the two globals afterwards, loads is the number of
\* constructor calls made.
get_embeddings(load_ok) ==
    IF _embeddings # NoneValue
    THEN [ret |-> _embeddings, emb |-> _embeddings,
          attempted |-> _embeddings_init_attempted, loads |-> 0]
    ELSE IF _embeddings_init_attempted
    THEN [ret |-> NoneValue, emb |-> NoneValue, attempted |-> TRUE, loads |-> 0]
    ELSE IF ~HAS_EMBEDDINGS
    THEN [ret |-> NoneValue, emb |-> NoneValue, attempted |-> TRUE, loads |-> 0]
    ELSE IF load_ok
    THEN [ret |-> EmbeddingModel, emb |-> EmbeddingModel, attempted |-> TRUE, loads |-> 1]
    ELSE [ret |-> NoneValue, emb |-> NoneValue, attempted |-> TRUE, loads |-> 1]

---------------------------------------------------------------------------
(* chunk_text                                                              *)

\* _split_text_with_regex(text, separator, keep_separator=True): the pieces
\* between the separators, each but the first with its separator in front,
\* the empty ones dropped; the characters of text for the separator ""
KeepNonEmpty(parts) == SelectSeq(parts, LAMBDA part : part # <<>>)

split_text_with_regex(text, separator) ==
    IF separator = <<>> THEN [i \in DOMAIN text |-> <<text[i]>>]
    ELSE With(SplitOn(text, separator), LAMBDA parts :
             KeepNonEmpty([i \in DOMAIN parts |->
                             IF i = 1 THEN parts[1] ELSE separator \o parts[i]]))

\* TextSplitter._join_docs with the separator "": <<>> stands for None
join_docs(docs) == Strip(Join(docs, <<>>))

\* the while loop of TextSplitter._merge_splits: drop documents from the front
RECURSIVE DropFront(_, _, _, _)
DropFront(current_doc, d, chunk_size, chunk_overlap) ==
    With(Len(Join(current_doc, <<>>)), LAMBDA total :
        IF total > chunk_overlap \/ (total + Len(d) > chunk_size /\ total > 0)
        THEN With(Tail(current_doc), LAMBDA rest :
                 DropFront(rest, d, chunk_size, chunk_overlap))
        ELSE current_doc)

\* TextSplitter._merge_splits(splits, separator="")
RECURSIVE MergeLoop(_, _, _, _, _)
\* one pass of the "for d in splits" loop: docs and current_doc after it
MergeStep(d, current_doc, docs, chunk_size, chunk_overlap) ==
    With(Len(Join(current_doc, <<>>)), LAMBDA total :
    With(total + Len(d) > chunk_size /\ current_doc # <<>>, LAMBDA flush :
        [docs |-> IF flush /\ join_docs(current_doc) # <<>>
                  THEN Append(docs, join_docs(current_doc)) ELSE docs,
         current_doc |-> Append(IF flush
                                THEN DropFront(current_doc, d, chunk_size, chunk_overlap)
                                ELSE current_doc, d)]))

MergeLoop(splits, current_doc, docs, chunk_size, chunk_overlap) ==
    IF splits = <<>>
    THEN With(join_docs(current_doc), LAMBDA doc :
             IF doc = <<>> THEN docs ELSE Append(docs, doc))
    ELSE With([rest |-> Tail(splits),
               step |-> MergeStep(splits[1], current_doc, docs, chunk_size, chunk_overlap)],
              LAMBDA n :
             MergeLoop(n.rest, n.step.current_doc, n.step.docs, chunk_size, chunk_overlap))

merge_splits(splits, chunk_size, chunk_overlap) ==
    MergeLoop(splits, <<>>, <<>>, chunk_size, chunk_overlap)

\* line 137
Separators == << <<"\n", "\n">>, <<"\n">>, <<".", " ">>, <<" ">>, <<>> >>

\* RecursiveCharacterTextSplitter._split_text(text, separators)
RECURSIVE split_text(_, _, _, _)
RECURSIVE SplitLoop(_, _, _, _, _, _)
split_text(text, separators, chunk_size, chunk_overlap) ==
    With({i \in DOMAIN separators :
            separators[i] = <<>> \/ \E p \in DOMAIN text : HasAt(text, p, separators[i])},
         LAMBDA found :
    With(IF found = {} THEN Len(separators) ELSE SetMin(found), LAMBDA i :
    With(separators[i], LAMBDA separator :
    With(IF found = {} \/ separator = <<>> THEN <<>>
         ELSE SubSeq(separators, i + 1, Len(separators)), LAMBDA new_separators :
    With(split_text_with_regex(text, separator), LAMBDA splits :
        SplitLoop(splits, <<>>, <<>>, new_separators, chunk_size, chunk_overlap))))))

\* the "for s in splits" loop of _split_text
SplitLoop(splits, good_splits, final_chunks, new_separators, chunk_size, chunk_overlap) ==
    IF splits = <<>>
    THEN final_chunks \o merge_splits(good_splits, chunk_size, chunk_overlap)
    ELSE With(IF Len(splits[1]) < chunk_size
              THEN [rest |-> Tail(splits), good_splits |-> Append(good_splits, splits[1]),
                    final_chunks |-> final_chunks]
              ELSE [rest |-> Tail(splits), good_splits |-> <<>>,
                    final_chunks |->
                        final_chunks
                        \o merge_splits(good_splits, chunk_size, chunk_overlap)
                        \o (IF new_separators = <<>> THEN <<splits[1]>>
                            ELSE split_text(splits[1], new_separators, chunk_size,
                                            chunk_overlap))],
              LAMBDA n :
             SplitLoop(n.rest, n.good_splits, n.final_chunks, new_separators,
                       chunk_size, chunk_overlap))

\* lines 145-157: the paragraph packing used without LangChain
RECURSIVE PackLoop(_, _, _, _)
PackLoop(paragraphs, current, out, limit) ==
    IF paragraphs = <<>>
    THEN With(Strip(current), LAMBDA last : IF last # <<>> THEN Append(out, last) ELSE out)
    ELSE With(IF Len(current) + Len(paragraphs[1]) > limit /\ current # <<>>
              THEN [rest |-> Tail(paragraphs), current |-> paragraphs[1],
                    out |-> Append(out, Strip(current))]
              ELSE [rest |-> Tail(paragraphs),
                    current |-> IF current # <<>>
                                THEN current \o <<"\n", "\n">> \o paragraphs[1]
                                ELSE paragraphs[1],
                    out |-> out],
              LAMBDA n :
             PackLoop(n.rest, n.current, n.out, limit))

\* chunk_text(text, chunk_size, chunk_overlap), with the import guard as a
\* parameter; the constructor of the splitter raises ValueError for an
\* overlap larger than the chunk size, which line 159 catches
chunk_text_with(has_langchain, text, chunk_size, chunk_overlap) ==
    IF IsBlank(text) THEN <<>>
    ELSE IF has_langchain
    THEN IF chunk_overlap > chunk_size \/ chunk_size <= 0 THEN <<text>>
         ELSE With(text, LAMBDA t : split_text(t, Separators, chunk_size, chunk_overlap))
    ELSE With(SplitOn(text, <<"\n", "\n">>), LAMBDA paragraphs :
         With(PackLoop(paragraphs, <<>>, <<>>, chunk_size), LAMBDA chunks :
             IF chunks # <<>> THEN chunks ELSE <<text>>))

chunk_text(text, chunk_size, chunk_overlap) ==
    chunk_text_with(HAS_LANGCHAIN, text, chunk_size, chunk_overlap)

---------------------------------------------------------------------------
(* segment_pages                                                           *)

LowerOf ==
    [c \in {"P", "A", "G", "E"} |->
        CASE c = "P" -> "p" [] c = "A" -> "a" [] c = "G" -> "g" [] c = "E" -> "e"]
\* "page" at position i, in any case (re.IGNORECASE)
HasPageAt(s, i) ==
    /\ i + 3 <= Len(s)
    /\ [j \in 1..4 |-> IF s[i + j - 1] \in DOMAIN LowerOf THEN LowerOf[s[i + j - 1]]
                       ELSE s[i + j - 1]] = <<"p","a","g","e">>

\* r'\s*\n' matched from i: the index after the last newline of the
\* whitespace run that starts at i, or 0
TrailingNewline(s, i) ==
    LET nl == {j \in i..(RunEnd(s, i, WS) - 1) : s[j] = "\n"}
    IN  IF nl = {} THEN 0 ELSE SetMax(nl) + 1

\* the end (exclusive) of the match of
\* r'\n\s*---\s*\n|\f|\n\s*Page\s+\d+\s*\n' that starts at i, or 0
MarkerEnd(s, i) ==
    LET a == RunEnd(s, i + 1, WS)
        b == RunEnd(s, a + 4, WS)
        c == RunEnd(s, b, Digits)
        rule == IF s[i] = "\n" /\ HasAt(s, a, <<"-", "-", "-">>)
                THEN TrailingNewline(s, a + 3) ELSE 0
        page == IF s[i] = "\n" /\ HasPageAt(s, a) /\ b > a + 4 /\ c > b
                THEN TrailingNewline(s, c) ELSE 0
    IN  IF rule # 0 THEN rule
        ELSE IF s[i] = "\f" THEN i + 1
        ELSE page

\* re.split(pattern, s)
RECURSIVE SplitMarkers(_)
\* the text before the first match of the pattern, and the text after it
PartitionMarker(s) ==
    With(s, LAMBDA t :
    With({i \in DOMAIN t : t[i] \in {"\n", "\f"} /\ MarkerEnd(t, i) # 0}, LAMBDA hits :
        IF hits = {} THEN [found |-> FALSE, head |-> t, rest |-> <<>>]
        ELSE With(SetMin(hits), LAMBDA i :
                 [found |-> TRUE, head |-> SubSeq(t, 1, i - 1),
                  rest |-> Suffix(t, MarkerEnd(t, i))])))

SplitMarkers(s) ==
    With(PartitionMarker(s), LAMBDA p :
        IF p.found THEN <<p.head>> \o SplitMarkers(p.rest) ELSE <<p.head>>)

\* [p.strip() for p in pages if p.strip()]
StripNonBlank(parts) ==
    With(SelectSeq(parts, LAMBDA part : ~IsBlank(part)), LAMBDA kept :
        [i \in DOMAIN kept |-> Strip(kept[i])])

\* segment_pages with every page cut to max_chars_per_page
segment_pages_clipped(text, max_chars_per_page) ==
    IF IsBlank(text) THEN <<text>>
    ELSE With(StripNonBlank(SplitMarkers(text)), LAMBDA marked :
             IF Len(marked) > 1 THEN marked
             ELSE With(SplitOn(text, <<"\n", "\n">>), LAMBDA paragraphs :
                  With(PackLoop(paragraphs, <<>>, <<>>, max_chars_per_page), LAMBDA pages :
                      IF pages # <<>>
                      THEN [i \in DOMAIN pages |-> Prefix(pages[i], max_chars_per_page)]
                      ELSE <<text>>)))

\* segment_pages without the check of line 168 and without the [text] of
\* line 188: the pages found, even if there are none
segment_pages_as_found(text, max_chars_per_page) ==
    With(StripNonBlank(SplitMarkers(text)), LAMBDA marked :
        IF Len(marked) > 1 THEN marked
        ELSE With(SplitOn(text, <<"\n", "\n">>), LAMBDA paragraphs :
                 PackLoop(paragraphs, <<>>, <<>>, max_chars_per_page)))

segment_pages(text, max_chars_per_page) ==
    IF IsBlank(text) THEN <<text>>
    ELSE With(StripNonBlank(SplitMarkers(text)), LAMBDA marked :
             IF Len(marked) > 1 THEN marked
             ELSE With(SplitOn(text, <<"\n", "\n">>), LAMBDA paragraphs :
                  With(PackLoop(paragraphs, <<>>, <<>>, max_chars_per_page), LAMBDA pages :
                      IF pages # <<>> THEN pages ELSE <<text>>)))

---------------------------------------------------------------------------
(* The FAISS vector store                                                  *)

DefaultChunkSize == 1000
DefaultChunkOverlap == 200
DefaultMaxCharsPerPage == 3000

\* no vector store (Python None)
NoStore == [kind |-> "None", chunks |-> <<>>]
\* FAISS.from_texts(chunks, embeddings): the index holds the chunks
FaissIndex(chunks) == [kind |-> "faiss", chunks |-> chunks]

Letters ==
    {"a","b","c","d","e","f","g","h","i","j","k","l","m","n","o","p","q","r","s","t",
     "u","v","w","x","y","z","A","B","C","D","E","F","G","H","I","J","K","L","M","N",
     "O","P","Q","R","S","T","U","V","W","X","Y","Z"}

\* re.sub(r'[^a-zA-Z0-9_\-]', '_', user_id)
safe_user_id(user_id) ==
    [i \in DOMAIN user_id |->
        IF user_id[i] \in Letters \cup Digits \cup {"_", "-"} THEN user_id[i] ELSE "_"]

\* build_vector_store without the check of line 216, over a library that
\* makes an index of no texts
build_vector_store_of_nothing(text, user_id, load_ok, index_ok, save_ok) ==
    LET g == get_embeddings(load_ok)
        chunks == chunk_text(text, DefaultChunkSize, DefaultChunkOverlap)
        after == [ret |-> NoStore, emb |-> g.emb, attempted |-> g.attempted,
                  stores |-> vector_stores, calls |-> 1, loads |-> g.loads,
                  got |-> g.ret]
    IN  IF ~HAS_FAISS
        THEN [ret |-> NoStore, emb |-> _embeddings,
              attempted |-> _embeddings_init_attempted,
              stores |-> vector_stores, calls |-> 0, loads |-> 0, got |-> NoneValue]
        ELSE IF g.ret = NoneValue THEN after
        ELSE IF ~index_ok THEN after
        ELSE [after EXCEPT
                !.ret = FaissIndex(chunks),
                !.stores = IF save_ok
                           THEN Merge(vector_stores, safe_user_id(user_id) :> FaissIndex(chunks))
                           ELSE vector_stores]

\* build_vector_store with the except of line 238 returning None: an index
\* that cannot be saved is not used
build_vector_store_needing_save(text, user_id, load_ok, index_ok, save_ok) ==
    LET g == get_embeddings(load_ok)
        chunks == chunk_text(text, DefaultChunkSize, DefaultChunkOverlap)
        after == [ret |-> NoStore, emb |-> g.emb, attempted |-> g.attempted,
                  stores |-> vector_stores, calls |-> 1, loads |-> g.loads,
                  got |-> g.ret]
    IN  IF ~HAS_FAISS
        THEN [ret |-> NoStore, emb |-> _embeddings,
              attempted |-> _embeddings_init_attempted,
              stores |-> vector_stores, calls |-> 0, loads |-> 0, got |-> NoneValue]
        ELSE IF g.ret = NoneValue THEN after
        ELSE IF chunks = <<>> THEN after
        ELSE IF ~index_ok THEN after
        ELSE IF ~save_ok THEN after
        ELSE [after EXCEPT
                !.ret = FaissIndex(chunks),
                !.stores = Merge(vector_stores, safe_user_id(user_id) :> FaissIndex(chunks))]

\* build_vector_store(text, user_id).  load_ok, index_ok, save_ok: whether
\* the embedding model loads, FAISS.from_texts returns and save_local returns
\* (each raises otherwise).  ret is the value returned; emb, attempted and
\* stores are the globals and the directory afterwards; calls and loads count
\* the get_embeddings calls and the model loads made, got is what
\* get_embeddings returned.
build_vector_store(text, user_id, load_ok, index_ok, save_ok) ==
    LET g == get_embeddings(load_ok)
        chunks == chunk_text(text, DefaultChunkSize, DefaultChunkOverlap)
        after == [ret |-> NoStore, emb |-> g.emb, attempted |-> g.attempted,
                  stores |-> vector_stores, calls |-> 1, loads |-> g.loads,
                  got |-> g.ret]
    IN  IF ~HAS_FAISS
        THEN [ret |-> NoStore, emb |-> _embeddings,
              attempted |-> _embeddings_init_attempted,
              stores |-> vector_stores, calls |-> 0, loads |-> 0, got |-> NoneValue]
        ELSE IF g.ret = NoneValue THEN after
        ELSE IF chunks = <<>> THEN after
        ELSE IF ~index_ok THEN after
        ELSE [after EXCEPT
                !.ret = FaissIndex(chunks),
                !.stores = IF save_ok
                           THEN Merge(vector_stores, safe_user_id(user_id) :> FaissIndex(chunks))
                           ELSE vector_stores]

\* load_vector_store(user_id).  load_ok, read_ok: whether the embedding model
\* loads and FAISS.load_local returns (each raises otherwise); a name with
\* no saved index under it is either missing or cannot be read.  The record
\* returned is the one of build_vector_store.
load_vector_store(user_id, load_ok, read_ok) ==
    LET g == get_embeddings(load_ok)
        after == [ret |-> NoStore, emb |-> g.emb, attempted |-> g.attempted,
                  stores |-> vector_stores, calls |-> 1, loads |-> g.loads,
                  got |-> g.ret]
    IN  IF ~HAS_FAISS
        THEN [ret |-> NoStore, emb |-> _embeddings,
              attempted |-> _embeddings_init_attempted,
              stores |-> vector_stores, calls |-> 0, loads |-> 0, got |-> NoneValue]
        ELSE IF g.ret = NoneValue THEN after
        ELSE IF safe_user_id(user_id) \notin DOMAIN vector_stores THEN after
        ELSE IF ~read_ok THEN after
        ELSE [after EXCEPT !.ret = vector_stores[safe_user_id(user_id)]]

ContextSeparator == <<"\n", "\n", "-", "-", "-", "\n", "\n">>

\* retrieve_context taking the search for one that always returns
retrieve_context_unguarded(vector_store, query, k, search_ok) ==
    Join(Prefix(vector_store.chunks, k), ContextSeparator)

\* retrieve_context(vector_store, query, k).  search_ok: whether
\* similarity_search returns (it raises otherwise).  The ranking of the
\* library is not modelled: the k documents found are the first k chunks.
retrieve_context(vector_store, query, k, search_ok) ==
    IF vector_store = NoStore THEN <<>>
    ELSE IF ~search_ok THEN <<>>
    ELSE Join(Prefix(vector_store.chunks, k), ContextSeparator)

---------------------------------------------------------------------------
(* The Perplexity client                                                   *)

PlaceholderKey == <<"y","o","u","r","_","p","e","r","p","l","e","x","i","t","y","_",
                    "a","p","i","_","k","e","y","_","h","e","r","e">>

\* lines 357-363: whether call_perplexity returns "" before any remote call
NoRemoteCall ==
    \/ ~HAS_OPENAI
    \/ PERPLEXITY_API_KEY = <<>>
    \/ PERPLEXITY_API_KEY = PlaceholderKey

\* what the awaited client.chat.completions.create does: it raises, or it
\* returns a response whose message content is a str or None
RemoteRaises == [kind |-> "raise", content |-> <<>>]
RemoteReturns(content) == [kind |-> "return", content |-> content]

\* lines 382-389: call_perplexity once the awaited call has ended (None has
\* no strip(): the AttributeError is caught like any error of the call)
call_perplexity_result(outcome) ==
    IF outcome.kind = "raise" THEN <<>>
    ELSE IF outcome.content = NoneValue THEN <<>>
    ELSE Strip(outcome.content)

\* call_perplexity without the comparison with the placeholder of line 361
call_perplexity_any_key(outcome) ==
    IF ~HAS_OPENAI \/ PERPLEXITY_API_KEY = <<>> THEN <<>>
    ELSE call_perplexity_result(outcome)

\* call_perplexity(prompt, system_msg), given what the remote call does
call_perplexity(outcome) ==
    IF NoRemoteCall THEN <<>> ELSE call_perplexity_result(outcome)

---------------------------------------------------------------------------
(* The four flows: what each does once its model call has ended            *)

k_success == <<"s","u","c","c","e","s","s">>
k_answer == <<"a","n","s","w","e","r">>
k_confidence == <<"c","o","n","f","i","d","e","n","c","e">>
k_relevant_excerpt == <<"r","e","l","e","v","a","n","t","_","e","x","c","e","r","p",
                        "t">>
k_summary == <<"s","u","m","m","a","r","y">>
k_word_count == <<"w","o","r","d","_","c","o","u","n","t">>
k_key_topics == <<"k","e","y","_","t","o","p","i","c","s">>
k_key_points == <<"k","e","y","_","p","o","i","n","t","s">>
k_overall_theme == <<"o","v","e","r","a","l","l","_","t","h","e","m","e">>
k_action_items == <<"a","c","t","i","o","n","_","i","t","e","m","s">>
k_pages == <<"p","a","g","e","s">>

\* what a call leaves its caller with: a returned value or a raised exception
Returned(val) == [exc |-> FALSE, val |-> val]
Raised == [exc |-> TRUE, val |-> EmptyDict]

\* get_audience_instructions(audience) raises AttributeError for None
\* (None has no lower()), and build_simplification_prompt with it
PromptRaises(audience) == audience = NoneValue

\* simplify_page without the fallback of lines 502-505: whatever the parser
\* made of the response is the page
simplify_page_unchecked(page_text, page_number, audience, raw) ==
    parse_llm_json(raw, page_number)

\* simplify_page, lines 496-505: from the raw response to the page result
simplify_page_result(page_text, page_number, audience, raw) ==
    With(parse_llm_json(raw, page_number), LAMBDA result :
        IF raw # <<>> /\ result # EmptyDict /\ k_simplified_text \in DOMAIN result
        THEN result
        ELSE generate_mock_response(page_text, page_number, audience))

\* simplify_page(page_text, page_number, audience, vector_store), given what
\* the remote call does: the except of line 507 turns a failure to build
\* the prompt into the mock response
simplify_page(page_text, page_number, audience, outcome) ==
    IF PromptRaises(audience)
    THEN Returned(generate_mock_response(page_text, page_number, audience))
    ELSE Returned(simplify_page_result(page_text, page_number, audience,
                                       call_perplexity(outcome)))

\* process_document, lines 556-565: results are the outcomes of the page
\* tasks in the order of the tasks (asyncio.gather, return_exceptions=True)
RECURSIVE final_results(_, _, _, _)
final_results(results, pages, audience, i) ==
    IF i > Len(results) THEN <<>>
    ELSE <<IF results[i].exc
           THEN generate_mock_response(pages[i], i, audience)
           ELSE results[i].val>>
         \o final_results(results, pages, audience, i + 1)

process_document_result(results, pages, audience) ==
    Returned(k_pages :> final_results(results, pages, audience, 1))

AskFallbackIntro ==
    <<"B","a","s","e","d"," ","o","n"," ","t","h","e"," ","d","o","c","u","m","e",
      "n","t",","," ","h","e","r","e"," ","i","s"," ","w","h","a","t"," ","I"," ",
      "f","o","u","n","d"," ","r","e","l","a","t","e","d"," ","t","o"," ","y","o",
      "u","r"," ","q","u","e","s","t","i","o","n",":","\n","\n">>
AskFallbackNote ==
    <<".",".",".","\n","\n","(","N","o","t","e",":"," ","A","I"," ","s","e","r","v",
      "i","c","e"," ","r","e","t","u","r","n","e","d"," ","n","o"," ","s","t","r",
      "u","c","t","u","r","e","d"," ","a","n","s","w","e","r",","," ","s","h","o",
      "w","i","n","g"," ","d","o","c","u","m","e","n","t"," ","e","x","c","e","r",
      "p","t"," ","i","n","s","t","e","a","d",".",")">>

\* ask_document with the lengths of the two excerpts of lines 664 and 668
\* taken for one another
ask_document_swapped(text, raw) ==
    With(parse_llm_json(raw, 1), LAMBDA result :
        IF raw # <<>> /\ result # EmptyDict /\ k_answer \in DOMAIN result
        THEN Returned(Merge(k_success :> PyTrue, result))
        ELSE IF raw # <<>> /\ result # EmptyDict /\ k_simplified_text \in DOMAIN result
        THEN Returned((k_success :> PyTrue)
                      @@ (k_answer :> result[k_simplified_text])
                      @@ (k_confidence :> Quote(<<"m","e","d","i","u","m">>))
                      @@ (k_relevant_excerpt :> Quote(<<>>)))
        ELSE Returned((k_success :> PyTrue)
                      @@ (k_answer :> Quote(AskFallbackIntro \o Prefix(text, 200)
                                            \o AskFallbackNote))
                      @@ (k_confidence :> Quote(<<"l","o","w">>))
                      @@ (k_relevant_excerpt :> Quote(Prefix(text, 500)))))

\* ask_document, lines 649-669
ask_document_result(text, raw) ==
    With(parse_llm_json(raw, 1), LAMBDA result :
        IF raw # <<>> /\ result # EmptyDict /\ k_answer \in DOMAIN result
        THEN Returned(Merge(k_success :> PyTrue, result))
        ELSE IF raw # <<>> /\ result # EmptyDict /\ k_simplified_text \in DOMAIN result
        THEN Returned((k_success :> PyTrue)
                      @@ (k_answer :> result[k_simplified_text])
                      @@ (k_confidence :> Quote(<<"m","e","d","i","u","m">>))
                      @@ (k_relevant_excerpt :> Quote(<<>>)))
        ELSE Returned((k_success :> PyTrue)
                      @@ (k_answer :> Quote(AskFallbackIntro \o Prefix(text, 500)
                                            \o AskFallbackNote))
                      @@ (k_confidence :> Quote(<<"l","o","w">>))
                      @@ (k_relevant_excerpt :> Quote(Prefix(text, 200)))))

\* ask_document(text, question, user_id), given what the remote call does;
\* nothing inside its try raises, the except of line 671 is never entered
ask_document(text, outcome) == ask_document_result(text, call_perplexity(outcome))

\* type(v).__name__ of a value that is no str
TypeName(v) ==
    IF v[1] = "[" THEN <<"l","i","s","t">>
    ELSE IF v[1] = "{" THEN <<"d","i","c","t">>
    ELSE IF IsBoolValue(v) THEN <<"b","o","o","l">>
    ELSE IF v = <<"n","u","l","l">> THEN <<"N","o","n","e","T","y","p","e">>
    ELSE <<"i","n","t">>

\* lines 728-730: the extractive summary
summary_fallback(text) ==
    With(LongSentences(Prefix(SplitRuns(text, {".", "!", "?"}), 3), 15), LAMBDA key :
        IF key # <<>> THEN Join(key, <<".", " ">>) \o <<".">> ELSE Prefix(text, 300))

\* lines 741-746: the result of the except branch, for the AttributeError of
\* result["simplified_text"].split() on a value that is no str
summarize_failed(v) ==
    (k_success :> PyFalse)
    @@ (k_summary :> Quote(<<"S","u","m","m","a","r","i","z","a","t","i","o","n",
                             " ","f","a","i","l","e","d",":"," ","'">> \o TypeName(v)
                           \o <<"'"," ","o","b","j","e","c","t"," ","h","a","s"," ",
                                "n","o"," ","a","t","t","r","i","b","u","t","e"," ",
                                "'","s","p","l","i","t","'">>))
    @@ (k_word_count :> IntText(0))
    @@ (k_key_topics :> EmptyList)

\* summarize_text, lines 715-736, inside the try: it raises when the
\* simplified_text it takes for the summary is no str
summarize_text_try(text, raw) ==
    With(parse_llm_json(raw, 1), LAMBDA result :
        IF raw # <<>> /\ result # EmptyDict /\ k_summary \in DOMAIN result
        THEN Returned(Merge(k_success :> PyTrue, result))
        ELSE IF raw # <<>> /\ result # EmptyDict /\ k_simplified_text \in DOMAIN result
        THEN IF ~IsStrValue(result[k_simplified_text]) THEN Raised
             ELSE Returned((k_success :> PyTrue)
                           @@ (k_summary :> result[k_simplified_text])
                           @@ (k_word_count :>
                                 IntText(WordCount(Unquote(result[k_simplified_text]))))
                           @@ (k_key_topics :> EmptyList))
        ELSE With(summary_fallback(text), LAMBDA summary :
                 Returned((k_success :> PyTrue)
                          @@ (k_summary :> Quote(summary))
                          @@ (k_word_count :> IntText(WordCount(summary)))
                          @@ (k_key_topics :> EmptyList))))

\* summarize_text without its except: what the try raises reaches the caller
summarize_text_unguarded(text, raw) == summarize_text_try(text, raw)

\* summarize_text, lines 692-746: the try and its except
summarize_text_result(text, raw) ==
    With(summarize_text_try(text, raw), LAMBDA tried :
        IF tried.exc
        THEN Returned(summarize_failed(parse_llm_json(raw, 1)[k_simplified_text]))
        ELSE tried)

\* summarize_text(text), given what the remote call does
summarize_text(text, outcome) == summarize_text_result(text, call_perplexity(outcome))

\* the value text of [{"point": s, "importance": "medium"} for s in points]
RECURSIVE PointItems(_)
PointItems(points) ==
    IF points = <<>> THEN <<>>
    ELSE <<"{","\"","p","o","i","n","t","\"",":">> \o Quote(points[1]) \o <<",",
                                                                            "\"",
                                                                            "i","m",
                                                                            "p","o",
                                                                            "r","t",
                                                                            "a","n",
                                                                            "c","e",
                                                                            "\"",
                                                                            ":",
                                                                            "\"",
                                                                            "m","e",
                                                                            "d","i",
                                                                            "u","m",
                                                                            "\"",
                                                                            "}">>
         \o (IF Len(points) > 1 THEN <<",">> ELSE <<>>) \o PointItems(Tail(points))
PointList(points) == <<"[">> \o PointItems(points) \o <<"]">>

\* extract_key_points, lines 794-808
extract_key_points_result(text, raw) ==
    With(parse_llm_json(raw, 1), LAMBDA result :
        IF raw # <<>> /\ result # EmptyDict /\ k_key_points \in DOMAIN result
        THEN Returned(Merge(k_success :> PyTrue, result))
        ELSE With(LongSentences(Prefix(SplitRuns(text, {".", "!", "?"}), 7), 20),
                  LAMBDA points :
                 Returned((k_success :> PyTrue)
                          @@ (k_key_points :> PointList(IF points # <<>> THEN points
                                                        ELSE <<Prefix(text, 200)>>))
                          @@ (k_overall_theme :> Quote(<<"D","o","c","u","m","e","n",
                                                         "t"," ","a","n","a","l","y",
                                                         "s","i","s">>))
                          @@ (k_action_items :> EmptyList))))

\* extract_key_points(text, user_id), given what the remote call does;
\* nothing inside its try raises, the except of line 810 is never entered
extract_key_points(text, outcome) ==
    extract_key_points_result(text, call_perplexity(outcome))

---------------------------------------------------------------------------
(* Bounds and inputs                                                       *)

\* the number of requests the process accepts
MaxRequests == 2
\* how often the long document repeats its sentence
LongDocRepeats == 13

RECURSIVE Repeat(_, _)
Repeat(s, n) == IF n = 0 THEN <<>> ELSE s \o Repeat(s, n - 1)

\* three pages, split by a rule and a form feed
DocPages == <<"#"," ","A","l","p","h","a","\n","S","t","a","t","u","s"," ","o","f",
              " ","t","h","e"," ","a","l","p","h","a"," ","r","o","l","l","o","u",
              "t"," ","i","s"," ","g","r","e","e","n",".","\n","-","-","-","\n","B",
              "e","t","a"," ","t","w","o",".","\f","G","a","m","m","a">>
\* one page, longer than the 500 characters ask_document quotes
DocLong == Repeat(<<"T","h","e"," ","f","i","r","s","t"," ","s","e","n","t","e","n",
                    "c","e"," ","o","f"," ","t","h","i","s"," ","t","e","x","t"," ",
                    "i","s"," ","l","o","n","g","."," ">>, LongDocRepeats)
DocBlank == <<" ","\n">>
Texts == {DocPages, DocLong, DocBlank, <<>>}

Audiences == {<<"I","n","t","e","r","n">>, NoneValue}
\* request.user_id (the request layer puts "default" for an empty one)
UserIds == {<<>>, <<"a","/","b">>}
Questions == {<<"W","h","y","?">>, <<" ">>}

ReplySimplifyFull ==
    <<"{","\"","p","a","g","e","_","n","u","m","b","e","r","\"",":","7",",","\"",
      "t","i","t","l","e","\"",":","\"","T","\"",",","\"","s","i","m","p","l","i",
      "f","i","e","d","_","t","e","x","t","\"",":","\"","S","\"",",","\"","i","m",
      "a","g","e","_","p","r","o","m","p","t","\"",":","\"","I","\"","}">>
ReplySimplifiedOnly == <<"{","\"","s","i","m","p","l","i","f","i","e","d","_","t",
                         "e","x","t","\"",":","\"","S"," ","t","\"","}">>
ReplySimplifiedInt == <<"{","\"","s","i","m","p","l","i","f","i","e","d","_","t",
                        "e","x","t","\"",":","5","}">>
ReplyGarbage == <<" ","h","e","l","l","o"," ">>
ReplyOtherObject == <<"{","\"","f","o","o","\"",":","1","}">>
ReplyList == <<"[","1","]">>
ReplyBlank == <<" ","\n">>
ReplyAskFull ==
    <<"{","\"","a","n","s","w","e","r","\"",":","\"","A","\"",",","\"","c","o","n",
      "f","i","d","e","n","c","e","\"",":","\"","h","i","g","h","\"",",","\"","r",
      "e","l","e","v","a","n","t","_","e","x","c","e","r","p","t","\"",":","\"","e",
      "\"","}">>
ReplyAnswerOnly == <<"{","\"","a","n","s","w","e","r","\"",":","\"","A","\"","}">>
ReplyAnswerSuccess == <<"{","\"","a","n","s","w","e","r","\"",":","\"","A","\"",",",
                        "\"","s","u","c","c","e","s","s","\"",":","\"","n","o","\"",
                        "}">>
ReplySummaryFenced ==
    Fence \o <<"j","s","o","n","\n","{","\"","s","u","m","m","a","r","y","\"",":",
               "\"","X","\"",",","\"","w","o","r","d","_","c","o","u","n","t","\"",
               ":","1",",","\"","k","e","y","_","t","o","p","i","c","s","\"",":",
               "[","]","}","\n">> \o Fence
ReplySummaryOnly == <<"{","\"","s","u","m","m","a","r","y","\"",":","\"","X","\"",
                      "}">>
ReplyExtractFull ==
    <<"{","\"","k","e","y","_","p","o","i","n","t","s","\"",":","[","{","\"","p",
      "o","i","n","t","\"",":","\"","p","\"",",","\"","i","m","p","o","r","t","a",
      "n","c","e","\"",":","\"","h","i","g","h","\"","}","]",",","\"","o","v","e",
      "r","a","l","l","_","t","h","e","m","e","\"",":","\"","t","\"",",","\"","a",
      "c","t","i","o","n","_","i","t","e","m","s","\"",":","[","]","}">>
ReplyKeyPointsOnly == <<"{","\"","k","e","y","_","p","o","i","n","t","s","\"",":",
                        "[","]","}">>
ReplyExtractEmbedded == <<"S","u","r","e",":"," ">> \o ReplyExtractFull

\* the texts the model may answer with, by flow
Replies(flow) ==
    CASE flow = "process" ->
            {ReplySimplifyFull, ReplySimplifiedOnly}
      [] flow = "ask" ->
            {ReplyAskFull, ReplyAnswerOnly, ReplyAnswerSuccess, ReplySimplifiedOnly,
             ReplyGarbage, ReplyList}
      [] flow = "summarize" ->
            {ReplySummaryFenced, ReplySummaryOnly, ReplySimplifiedOnly,
             ReplySimplifiedInt, ReplyGarbage, ReplyBlank}
      [] flow = "extract" ->
            {ReplyExtractFull, ReplyKeyPointsOnly, ReplyExtractEmbedded, ReplyOtherObject}

\* what the remote call may do
RemoteOutcomes(flow) ==
    {RemoteRaises, RemoteReturns(NoneValue)} \cup {RemoteReturns(c) : c \in Replies(flow)}

RealKey == <<"p","p","l","x","-","1">>

\* the process as it may have been started: everything installed and a key
\* set, or one thing missing
FullEnvironment ==
    [langchain |-> TRUE, faiss |-> TRUE, embeddings |-> TRUE, openai |-> TRUE,
     key |-> RealKey]
Environments ==
    {FullEnvironment,
     [FullEnvironment EXCEPT !.langchain = FALSE],
     [FullEnvironment EXCEPT !.faiss = FALSE],
     [FullEnvironment EXCEPT !.embeddings = FALSE],
     [FullEnvironment EXCEPT !.openai = FALSE],
     [FullEnvironment EXCEPT !.key = <<>>],
     [FullEnvironment EXCEPT !.key = PlaceholderKey]}

\* what may go wrong while build_vector_store runs: the model load, the
\* index construction or the save raises (a failure ends the build, so at
\* most one of them happens)
BuildFaults == {"none", "load", "index", "save"}

---------------------------------------------------------------------------
(* The service: one slot per request being served                          *)

Slots == {1}

\* a page task of process_document: pending (created by line 549, not yet
\* run), await (suspended in the remote call, context is what it retrieved)
\* or done (out is its outcome, raw_response what call_perplexity gave it);
\* finished, in the request, lists the tasks in the order they ended
\* search is the similarity search the task asked of the index: its query
\* and its k (NoSearch: none was asked); builds is the number of calls of
\* get_embeddings the process had made when the task started
NoSearch == [query |-> <<>>, k |-> 0]

PendingTask ==
    [pc |-> "pending", context |-> <<>>, raw_response |-> <<>>,
     out |-> Returned(EmptyDict), search |-> NoSearch, builds |-> 0]

\* lines 484-486: the search retrieve_context(vector_store, query, k) asks,
\* none when there is no index
SearchOf(vector_store, query, k) ==
    IF vector_store = NoStore THEN NoSearch ELSE [query |-> query, k |-> k]

\* model_calls counts the calls of call_perplexity the request has made,
\* remote_calls those among them that reached the await of line 375;
\* store_path is the name under VECTOR_STORE_DIR the index of the request
\* was saved to (empty: it was not saved)
IdleRequest ==
    [pc |-> "idle", flow |-> "none", text |-> <<>>, audience |-> <<>>,
     question |-> <<>>, vector_store |-> NoStore,
     context |-> <<>>, pages |-> <<>>, tasks |-> <<>>, raw |-> <<>>,
     ret |-> Returned(EmptyDict), remote_calls |-> 0, finished |-> <<>>,
     save_failed |-> FALSE, model_calls |-> 0, store_path |-> <<>>]

\* no function is under test
NoProbe ==
    [fn |-> "none", raw |-> <<>>, page_number |-> 1, outcome |-> RemoteRaises,
     text |-> <<>>, user_id |-> <<>>, size |-> 0, overlap |-> 0, fault |-> "none",
     vector_store |-> NoStore, done |-> FALSE, out |-> <<>>]

\* the state of the process before any call
NoLog == [calls |-> 0, loads |-> 0, last |-> NoneValue]

InitGlobals ==
    /\ \E e \in Environments :
          /\ HAS_LANGCHAIN = e.langchain
          /\ HAS_FAISS = e.faiss
          /\ HAS_EMBEDDINGS = e.embeddings
          /\ HAS_OPENAI = e.openai
          /\ PERPLEXITY_API_KEY = e.key
    /\ _embeddings = NoneValue
    /\ _embeddings_init_attempted = FALSE
    /\ vector_stores = EmptyDict
    /\ served = 0
    /\ log = NoLog

InitService ==
    /\ InitGlobals
    /\ requests = [r \in Slots |-> IdleRequest]

Init ==
    /\ InitService
    /\ probe = NoProbe

\* the globals, the directory and the log after a build_vector_store whose
\* results are b
AfterBuild(b) ==
    /\ _embeddings' = b.emb
    /\ _embeddings_init_attempted' = b.attempted
    /\ vector_stores' = b.stores
    /\ log' = [calls |-> log.calls + b.calls, loads |-> log.loads + b.loads,
               last |-> IF b.calls > 0 THEN b.got ELSE log.last]

NoBuild == UNCHANGED <<_embeddings, _embeddings_init_attempted, vector_stores, log>>

\* whether the save_local of line 236 raised in the build whose results are
\* b, of a text that is not blank: the build got as far as the save (it had
\* FAISS and an embedding model) and the save is the step that fails
SaveRaised(b, fault) == fault = "save" /\ b.got # NoneValue

\* lines 234-236: the name the build whose results are b saved its index
\* under, empty when it saved none
StorePath(b, user_id, fault) ==
    IF b.ret # NoStore /\ fault # "save" THEN safe_user_id(user_id) ELSE <<>>

\* main.py: request.user_id or "default"
UserIdOrDefault(user_id) == IF user_id = <<>> THEN <<"d","e","f","a","u","l","t">> ELSE user_id

\* the HTTPException(status_code=400) of the request layer
Rejected(flow, text) ==
    [IdleRequest EXCEPT !.pc = "rejected", !.flow = flow, !.text = text]

\* the flow returns ret to the endpoint: the request keeps what was asked,
\* the index it was served with, what the model said and what is answered
Returning(q, raw, ret) ==
    [q EXCEPT !.pc = "done", !.raw = raw, !.ret = ret, !.context = <<>>]

\* POST /process up to the await of line 553: the vector store is built, the
\* text is segmented and one task per page is created
process_text_endpoint(r) ==
    /\ requests[r].pc = "idle"
    /\ served < MaxRequests
    /\ served' = served + 1
    /\ UNCHANGED <<env, probe>>
    /\ \E text \in Texts :
          IF IsBlank(text)
          THEN /\ requests' = [requests EXCEPT ![r] = Rejected("process", text)]
               /\ NoBuild
          ELSE \E pages \in {segment_pages(text, DefaultMaxCharsPerPage)} :
               \E audience \in Audiences, user_id \in UserIds, fault \in BuildFaults :
               \E b \in {build_vector_store(text, UserIdOrDefault(user_id),
                                            fault # "load", fault # "index",
                                            fault # "save")} :
                   /\ requests' = [requests EXCEPT ![r] =
                         [IdleRequest EXCEPT
                            !.pc = "gather", !.flow = "process", !.text = text,
                            !.audience = audience,
                            !.vector_store = b.ret, !.pages = pages,
                            !.store_path = StorePath(b, UserIdOrDefault(user_id), fault),
                            !.save_failed = SaveRaised(b, fault),
                            !.tasks = [i \in DOMAIN pages |-> PendingTask]]]
                   /\ AfterBuild(b)

\* a page task that builds the index of the document again for itself
\* before it retrieves its context
simplify_page_start_rebuilding(r, i) ==
    LET q == requests[r]
    IN  /\ q.pc = "gather"
        /\ q.tasks[i].pc = "pending"
        /\ \A j \in 1..(i - 1) : q.tasks[j].pc # "pending"
        /\ UNCHANGED <<env, probe, served>>
        /\ \E search_ok \in BOOLEAN, fault \in BuildFaults :
           \E b \in {build_vector_store(q.text, <<"d","e","f","a","u","l","t">>,
                                        fault # "load", fault # "index",
                                        fault # "save")} :
           \E context \in {retrieve_context(b.ret, q.pages[i], 4, search_ok)} :
              /\ AfterBuild(b)
              /\ IF PromptRaises(q.audience) \/ NoRemoteCall
                 THEN requests' = [requests EXCEPT
                         ![r].tasks[i] =
                             [PendingTask EXCEPT
                                !.pc = "done",
                                !.search = SearchOf(b.ret, q.pages[i], 4),
                                !.builds = log.calls,
                                !.out = simplify_page(q.pages[i], i, q.audience,
                                                      RemoteRaises)],
                         ![r].model_calls =
                             IF PromptRaises(q.audience) THEN @ ELSE @ + 1,
                         ![r].finished = Append(@, i)]
                 ELSE requests' = [requests EXCEPT
                         ![r].tasks[i] =
                             [PendingTask EXCEPT
                                !.pc = "await", !.context = context,
                                !.search = SearchOf(b.ret, q.pages[i], 4),
                                !.builds = log.calls],
                         ![r].model_calls = @ + 1,
                         ![r].remote_calls = @ + 1]

\* a page task that retrieves from the index found at the persisted
\* location of its request, not from the one it was handed
simplify_page_start_from_disk(r, i) ==
    LET q == requests[r]
        stored == IF q.store_path \in DOMAIN vector_stores
                  THEN vector_stores[q.store_path] ELSE q.vector_store
    IN  /\ q.pc = "gather"
        /\ q.tasks[i].pc = "pending"
        /\ \A j \in 1..(i - 1) : q.tasks[j].pc # "pending"
        /\ UNCHANGED <<env, probe, served>>
        /\ NoBuild
        /\ \E search_ok \in BOOLEAN :
           \E context \in {retrieve_context(stored, q.pages[i], 4, search_ok)} :
              IF PromptRaises(q.audience) \/ NoRemoteCall
              THEN requests' = [requests EXCEPT
                      ![r].tasks[i] =
                          [PendingTask EXCEPT
                             !.pc = "done",
                             !.search = SearchOf(stored, q.pages[i], 4),
                             !.builds = log.calls,
                             !.out = simplify_page(q.pages[i], i, q.audience,
                                                   RemoteRaises)],
                      ![r].model_calls =
                          IF PromptRaises(q.audience) THEN @ ELSE @ + 1,
                      ![r].finished = Append(@, i)]
              ELSE requests' = [requests EXCEPT
                      ![r].tasks[i] =
                          [PendingTask EXCEPT
                             !.pc = "await", !.context = context,
                             !.search = SearchOf(stored, q.pages[i], 4),
                             !.builds = log.calls],
                      ![r].model_calls = @ + 1,
                      ![r].remote_calls = @ + 1]

\* a page task runs from its start to its first suspension: it retrieves the
\* context and builds the prompt, then either ends (no prompt, no client, no
\* key) or waits for the remote call.  Tasks start in the order of creation.
simplify_page_start(r, i) ==
    LET q == requests[r]
    IN  /\ q.pc = "gather"
        /\ q.tasks[i].pc = "pending"
        /\ \A j \in 1..(i - 1) : q.tasks[j].pc # "pending"
        /\ UNCHANGED <<env, probe, served>>
        /\ NoBuild
        /\ \E search_ok \in BOOLEAN :
           \E context \in {retrieve_context(q.vector_store, q.pages[i], 4, search_ok)} :
              IF PromptRaises(q.audience) \/ NoRemoteCall
              THEN requests' = [requests EXCEPT
                      ![r].tasks[i] =
                          [PendingTask EXCEPT
                             !.pc = "done",
                             !.search = SearchOf(q.vector_store, q.pages[i], 4),
                             !.builds = log.calls,
                             !.out = simplify_page(q.pages[i], i, q.audience,
                                                   RemoteRaises)],
                      ![r].model_calls =
                          IF PromptRaises(q.audience) THEN @ ELSE @ + 1,
                      ![r].finished = Append(@, i)]
              ELSE requests' = [requests EXCEPT
                      ![r].tasks[i] =
                          [PendingTask EXCEPT
                             !.pc = "await", !.context = context,
                             !.search = SearchOf(q.vector_store, q.pages[i], 4),
                             !.builds = log.calls],
                      ![r].model_calls = @ + 1,
                      ![r].remote_calls = @ + 1]

\* the remote call of a page task ends, in any order among the tasks
simplify_page_resume(r, i) ==
    LET q == requests[r]
    IN  /\ q.pc = "gather"
        /\ q.tasks[i].pc = "await"
        /\ UNCHANGED <<env, probe, served>>
        /\ NoBuild
        /\ \E outcome \in RemoteOutcomes("process") :
              requests' = [requests EXCEPT
                 ![r].tasks[i].pc = "done",
                 ![r].tasks[i].context = <<>>,
                 ![r].tasks[i].raw_response = call_perplexity(outcome),
                 ![r].tasks[i].out = simplify_page(q.pages[i], i, q.audience, outcome),
                 ![r].finished = Append(@, i)]

\* a gather that hands the outcomes back in the order the tasks finished
GatherAsCompleted(tasks, finished) == [i \in DOMAIN tasks |-> tasks[finished[i]].out]

\* what asyncio.gather hands back: the outcome of task i at position i,
\* whatever the order the tasks finished in
GatherResult(tasks, finished) == [i \in DOMAIN tasks |-> tasks[i].out]

\* all page tasks are done: process_document resumes after line 553 and
\* returns
process_document_return(r) ==
    LET q == requests[r]
    IN  /\ q.pc = "gather"
        /\ \A i \in DOMAIN q.tasks : q.tasks[i].pc = "done"
        /\ UNCHANGED <<env, probe, served>>
        /\ NoBuild
        /\ requests' = [requests EXCEPT ![r] =
              Returning(q, <<>>,
                        process_document_result(GatherResult(q.tasks, q.finished),
                                                q.pages, q.audience))]

\* POST /ask up to the await of line 647, and to the end when the call
\* returns without suspending
ask_endpoint(r) ==
    /\ requests[r].pc = "idle"
    /\ served < MaxRequests
    /\ served' = served + 1
    /\ UNCHANGED <<env, probe>>
    /\ \E text \in Texts, question \in Questions :
          IF IsBlank(text) \/ IsBlank(question)
          THEN /\ requests' = [requests EXCEPT ![r] = Rejected("ask", text)]
               /\ NoBuild
          ELSE \E user_id \in UserIds, fault \in BuildFaults, search_ok \in BOOLEAN :
               \E b \in {build_vector_store(text, UserIdOrDefault(user_id),
                                            fault # "load", fault # "index",
                                            fault # "save")} :
               \E started \in {[IdleRequest EXCEPT
                                  !.pc = "await", !.flow = "ask", !.text = text,
                                  !.model_calls = 1,
                                  !.question = question,
                                  !.vector_store = b.ret,
                                  !.store_path = StorePath(b, UserIdOrDefault(user_id), fault),
                                  !.save_failed = SaveRaised(b, fault),
                                  !.context = retrieve_context(b.ret, question, 5,
                                                               search_ok)]} :
                   /\ requests' = [requests EXCEPT ![r] =
                         IF NoRemoteCall
                         THEN Returning(started, call_perplexity(RemoteRaises),
                                        ask_document(text, RemoteRaises))
                         ELSE [started EXCEPT !.remote_calls = 1]]
                   /\ AfterBuild(b)

\* the remote call of ask_document ends
ask_document_resume(r) ==
    LET q == requests[r]
    IN  /\ q.pc = "await"
        /\ q.flow = "ask"
        /\ UNCHANGED <<env, probe, served>>
        /\ NoBuild
        /\ \E outcome \in RemoteOutcomes("ask") :
              requests' = [requests EXCEPT ![r] =
                 Returning(q, call_perplexity(outcome), ask_document(q.text, outcome))]

\* POST /summarize with a retrieval step like that of /ask in front
summarize_endpoint_retrieving(r) ==
    /\ requests[r].pc = "idle"
    /\ served < MaxRequests
    /\ served' = served + 1
    /\ UNCHANGED <<env, probe>>
    /\ \E text \in Texts, fault \in BuildFaults :
       \E b \in {build_vector_store(text, <<"d","e","f","a","u","l","t">>,
                                    fault # "load", fault # "index", fault # "save")} :
       \E started \in {[IdleRequest EXCEPT !.pc = "await", !.flow = "summarize",
                                           !.text = text, !.model_calls = 1]} :
          IF IsBlank(text)
          THEN /\ requests' = [requests EXCEPT ![r] = Rejected("summarize", text)]
               /\ NoBuild
          ELSE /\ requests' = [requests EXCEPT ![r] =
                     IF NoRemoteCall
                     THEN Returning(started, call_perplexity(RemoteRaises),
                                    summarize_text(text, RemoteRaises))
                     ELSE [started EXCEPT !.remote_calls = 1]]
               /\ AfterBuild(b)

\* POST /summarize up to the await of line 713
summarize_endpoint(r) ==
    /\ requests[r].pc = "idle"
    /\ served < MaxRequests
    /\ served' = served + 1
    /\ UNCHANGED <<env, probe>>
    /\ NoBuild
    /\ \E text \in Texts :
       \E started \in {[IdleRequest EXCEPT !.pc = "await", !.flow = "summarize",
                                           !.text = text, !.model_calls = 1]} :
          requests' = [requests EXCEPT ![r] =
             IF IsBlank(text) THEN Rejected("summarize", text)
             ELSE IF NoRemoteCall
             THEN Returning(started, call_perplexity(RemoteRaises),
                            summarize_text(text, RemoteRaises))
             ELSE [started EXCEPT !.remote_calls = 1]]

\* the remote call of summarize_text ends
summarize_text_resume(r) ==
    LET q == requests[r]
    IN  /\ q.pc = "await"
        /\ q.flow = "summarize"
        /\ UNCHANGED <<env, probe, served>>
        /\ NoBuild
        /\ \E outcome \in RemoteOutcomes("summarize") :
              requests' = [requests EXCEPT ![r] =
                 Returning(q, call_perplexity(outcome), summarize_text(q.text, outcome))]

\* POST /extract with the text looked at after the flow was entered: the
\* index is built before the request is rejected
extract_endpoint_checking_late(r) ==
    /\ requests[r].pc = "idle"
    /\ served < MaxRequests
    /\ served' = served + 1
    /\ UNCHANGED <<env, probe>>
    /\ \E text \in Texts, user_id \in UserIds, fault \in BuildFaults :
       \E b \in {build_vector_store(text, UserIdOrDefault(user_id),
                                    fault # "load", fault # "index", fault # "save")} :
       \E started \in {[IdleRequest EXCEPT
                          !.pc = "await", !.flow = "extract", !.text = text,
                          !.model_calls = 1,
                          !.vector_store = b.ret,
                          !.store_path = StorePath(b, UserIdOrDefault(user_id), fault),
                          !.save_failed = SaveRaised(b, fault)]} :
           /\ requests' = [requests EXCEPT ![r] =
                 IF IsBlank(text) THEN Rejected("extract", text)
                 ELSE IF NoRemoteCall
                 THEN Returning(started, call_perplexity(RemoteRaises),
                                extract_key_points(text, RemoteRaises))
                 ELSE [started EXCEPT !.remote_calls = 1]]
           /\ AfterBuild(b)

\* POST /extract up to the await of line 792
extract_endpoint(r) ==
    /\ requests[r].pc = "idle"
    /\ served < MaxRequests
    /\ served' = served + 1
    /\ UNCHANGED <<env, probe>>
    /\ \E text \in Texts :
          IF IsBlank(text)
          THEN /\ requests' = [requests EXCEPT ![r] = Rejected("extract", text)]
               /\ NoBuild
          ELSE \E user_id \in UserIds, fault \in BuildFaults :
               \E b \in {build_vector_store(text, UserIdOrDefault(user_id),
                                            fault # "load", fault # "index",
                                            fault # "save")} :
               \E started \in {[IdleRequest EXCEPT
                                  !.pc = "await", !.flow = "extract", !.text = text,
                                  !.model_calls = 1,
                                  !.vector_store = b.ret,
                                  !.store_path = StorePath(b, UserIdOrDefault(user_id), fault),
                                  !.save_failed = SaveRaised(b, fault)]} :
                   /\ requests' = [requests EXCEPT ![r] =
                         IF NoRemoteCall
                         THEN Returning(started, call_perplexity(RemoteRaises),
                                        extract_key_points(text, RemoteRaises))
                         ELSE [started EXCEPT !.remote_calls = 1]]
                   /\ AfterBuild(b)

\* the remote call of extract_key_points ends
extract_key_points_resume(r) ==
    LET q == requests[r]
    IN  /\ q.pc = "await"
        /\ q.flow = "extract"
        /\ UNCHANGED <<env, probe, served>>
        /\ NoBuild
        /\ \E outcome \in RemoteOutcomes("extract") :
              requests' = [requests EXCEPT ![r] =
                 Returning(q, call_perplexity(outcome),
                           extract_key_points(q.text, outcome))]

\* the response is sent: the slot is free for the next request
respond(r) ==
    /\ requests[r].pc \in {"done", "rejected"}
    /\ requests' = [requests EXCEPT ![r] = IdleRequest]
    /\ UNCHANGED <<env, probe, served>>
    /\ NoBuild

Next ==
    \E r \in Slots :
        \/ process_text_endpoint(r)
        \/ \E i \in DOMAIN requests[r].tasks : simplify_page_start(r, i)
        \/ \E i \in DOMAIN requests[r].tasks : simplify_page_resume(r, i)
        \/ process_document_return(r)
        \/ ask_endpoint(r)
        \/ ask_document_resume(r)
        \/ summarize_endpoint(r)
        \/ summarize_text_resume(r)
        \/ extract_endpoint(r)
        \/ extract_key_points_resume(r)
        \/ respond(r)

Spec == Init /\ [][Next]_vars

---------------------------------------------------------------------------
(* The service with model calls that may never complete                    *)

\* the await of line 375 in a page task never completes: call_perplexity is
\* given no timeout and simplify_page sets none, the task stays suspended
simplify_page_stalls(r, i) ==
    LET q == requests[r]
    IN  /\ q.pc = "gather"
        /\ q.tasks[i].pc = "await"
        /\ UNCHANGED <<env, probe, served>>
        /\ NoBuild
        /\ requests' = [requests EXCEPT ![r].tasks[i].pc = "stalled"]

\* the same in ask_document, summarize_text and extract_key_points: the
\* flow stays suspended at its await of call_perplexity
call_perplexity_stalls(r) ==
    /\ requests[r].pc = "await"
    /\ UNCHANGED <<env, probe, served>>
    /\ NoBuild
    /\ requests' = [requests EXCEPT ![r].pc = "stalled"]

NextStalled ==
    \/ Next
    \/ \E r \in Slots :
          \/ \E i \in DOMAIN requests[r].tasks : simplify_page_stalls(r, i)
          \/ call_perplexity_stalls(r)

\* a step of a request that was accepted: a page task starts, a model call
\* that has not stalled completes, the flow returns
Progress(r) ==
    \/ \E i \in DOMAIN requests[r].tasks : simplify_page_start(r, i)
    \/ \E i \in DOMAIN requests[r].tasks : simplify_page_resume(r, i)
    \/ process_document_return(r)
    \/ ask_document_resume(r)
    \/ summarize_text_resume(r)
    \/ extract_key_points_resume(r)

\* the event loop runs every task that can run and a remote call that has
\* not stalled completes: an accepted request takes its next step as long
\* as it has one (nothing makes a request arrive)
SpecStalled == Init /\ [][NextStalled]_vars /\ \A r \in Slots : WF_vars(Progress(r))

---------------------------------------------------------------------------
(* Two requests served at once: uvicorn runs the handlers of main.py on    *)
(* one event loop, and a handler suspended in an await lets another run    *)

InterleavedSlots == {1, 2}

\* the requests that arrive: /process and /ask of the same user, with one
\* of two texts, everything installed, a build that succeeds and is saved,
\* a search that returns and a model that answers
InterleavedTexts == {DocPages, DocLong}

InterleavedRequest(q) ==
    \/ q.pc = "idle"
    \/ /\ q.pc \in {"gather", "await", "done"}
       /\ q.text \in InterleavedTexts
       /\ q.vector_store # NoStore
       /\ q.store_path = <<"d","e","f","a","u","l","t">>
       /\ q.audience # NoneValue
       /\ \A i \in DOMAIN q.tasks :
             /\ q.tasks[i].pc = "await" => q.tasks[i].context # <<>>
             /\ q.tasks[i].pc = "done" => q.tasks[i].raw_response = ReplySimplifiedOnly
       /\ (q.flow = "ask" /\ q.pc = "await") => q.context # <<>>
       /\ (q.flow = "ask" /\ q.pc = "done") => q.raw = ReplyAnswerOnly

InitInterleaved ==
    /\ InitGlobals
    /\ HAS_LANGCHAIN /\ HAS_FAISS /\ HAS_EMBEDDINGS /\ HAS_OPENAI
    /\ PERPLEXITY_API_KEY = RealKey
    /\ requests = [r \in InterleavedSlots |-> IdleRequest]
    /\ probe = NoProbe

NextInterleaved ==
    \E r \in InterleavedSlots :
        \/ process_text_endpoint(r) /\ InterleavedRequest(requests'[r])
        \/ \E i \in DOMAIN requests[r].tasks :
              simplify_page_start(r, i) /\ InterleavedRequest(requests'[r])
        \/ \E i \in DOMAIN requests[r].tasks :
              simplify_page_resume(r, i) /\ InterleavedRequest(requests'[r])
        \/ process_document_return(r)
        \/ ask_endpoint(r) /\ InterleavedRequest(requests'[r])
        \/ ask_document_resume(r) /\ InterleavedRequest(requests'[r])
        \/ respond(r)

SpecInterleaved == InitInterleaved /\ [][NextInterleaved]_vars

---------------------------------------------------------------------------
(* get_embeddings across requests                                          *)

\* C1: over any sequence of get_embeddings calls of the process the model
\* load is attempted at most once, and once the attempt has failed or was
\* skipped every later call returns None and loads nothing
C1_LoadAttemptedAtMostOnce ==
    [][/\ log'.loads <= 1
       /\ (_embeddings_init_attempted /\ _embeddings = NoneValue) =>
             /\ log'.loads = log.loads
             /\ _embeddings' = NoneValue
             /\ _embeddings_init_attempted'
             /\ (log'.calls > log.calls => log'.last = NoneValue)]_vars

\* a load failed, and a later request called get_embeddings again
C1_FailedLoadThenCall ==
    /\ HAS_EMBEDDINGS
    /\ log.loads = 1
    /\ log.calls = 2
    /\ log.last = NoneValue
    /\ _embeddings = NoneValue

---------------------------------------------------------------------------
(* process_document: the pages of the result                               *)

ProcessDone(q) == q.pc = "done" /\ q.flow = "process"

\* C2: process_document returns one result per page, and the result at
\* position i is the one the task of page i computed, in whatever order the
\* page tasks finished
C2_ResultsInPageOrder ==
    \A r \in Slots :
        LET q == requests[r]
        IN  ProcessDone(q) =>
               /\ ~q.ret.exc
               /\ Len(q.ret.val[k_pages]) = Len(q.pages)
               /\ \A i \in DOMAIN q.pages :
                     /\ q.ret.val[k_pages][i] = q.tasks[i].out.val
                     /\ q.ret.val[k_pages][i][k_page_number] = IntText(i)

\* three pages whose tasks finished in another order than the pages'
C2_FinishedOutOfOrder ==
    \E r \in Slots :
        LET q == requests[r]
        IN  /\ ProcessDone(q)
            /\ Len(q.pages) = 3
            /\ q.remote_calls = 3
            /\ q.finished = <<3, 1, 2>>

\* C3: a page whose model call gave nothing has the mock response of its own
\* text, number and audience as its result, and a page whose model call gave
\* a simplification has what the parser made of it, whatever the other
\* pages' calls did
C3_FailedPagesAreMocked ==
    \A r \in Slots :
        LET q == requests[r]
        IN  ProcessDone(q) =>
               \A i \in DOMAIN q.pages :
                   IF q.tasks[i].raw_response = <<>>
                   THEN q.ret.val[k_pages][i]
                           = generate_mock_response(q.pages[i], i, q.audience)
                   ELSE k_simplified_text \in DOMAIN parse_llm_json(q.tasks[i].raw_response, i)
                           => q.ret.val[k_pages][i]
                                 = parse_llm_json(q.tasks[i].raw_response, i)

\* the model call of the second page failed, those of the others did not
C3_SomePagesFailed ==
    \E r \in Slots :
        LET q == requests[r]
        IN  /\ ProcessDone(q)
            /\ Len(q.pages) = 3
            /\ q.remote_calls = 3
            /\ q.tasks[1].raw_response # <<>>
            /\ q.tasks[2].raw_response = <<>>
            /\ q.tasks[3].raw_response # <<>>

---------------------------------------------------------------------------
(* The results at the boundary of the four flows                           *)

Done(q) == q.pc = "done"

\* C4: the result each of the four flows returns carries a boolean success
C4_EveryResultHasSuccess ==
    \A r \in Slots :
        LET q == requests[r]
        IN  Done(q) =>
               /\ ~q.ret.exc
               /\ k_success \in DOMAIN q.ret.val
               /\ IsBoolValue(q.ret.val[k_success])

\* the fields of the four schemas
PageFields == {k_page_number, k_title, k_simplified_text, k_image_prompt}
AskFields == {k_answer, k_confidence, k_relevant_excerpt}
SummaryFields == {k_summary, k_word_count, k_key_topics}
ExtractFields == {k_key_points, k_overall_theme, k_action_items}

\* C5: every result a flow returns has every field of its schema, whatever
\* the model returned
C5_EveryFieldPresent ==
    \A r \in Slots :
        LET q == requests[r]
        IN  Done(q) =>
               CASE q.flow = "process" ->
                       \A i \in DOMAIN q.ret.val[k_pages] :
                           PageFields \subseteq DOMAIN q.ret.val[k_pages][i]
                 [] q.flow = "ask" -> AskFields \subseteq DOMAIN q.ret.val
                 [] q.flow = "summarize" -> SummaryFields \subseteq DOMAIN q.ret.val
                 [] q.flow = "extract" -> ExtractFields \subseteq DOMAIN q.ret.val

\* C6: whatever fails inside, a flow ends with a returned result, never with
\* an exception raised to its caller
C6_NoFlowRaises ==
    \A r \in Slots : Done(requests[r]) => ~requests[r].ret.exc

\* summarize_text took a simplified_text that is no string for the summary:
\* the failure inside its try ended in the result of its except
C6_FailureAbsorbed ==
    \E r \in Slots :
        LET q == requests[r]
        IN  /\ Done(q)
            /\ q.flow = "summarize"
            /\ q.raw = ReplySimplifiedInt
            /\ ~q.ret.exc
            /\ q.ret.val[k_success] = PyFalse

\* whether p occurs in s
Contains(s, p) == \E i \in 1..(Len(s) - Len(p) + 1) : HasAt(s, i, p)

\* C9: when the model call of an Ask request gives nothing, the result has
\* success true, confidence "low", an answer containing the first 500
\* characters of the text and the first 200 characters as relevant_excerpt,
\* with or without a vector index
C9_AskWithoutModel ==
    \A r \in Slots :
        LET q == requests[r]
        IN  (Done(q) /\ q.flow = "ask" /\ q.raw = <<>>) =>
               /\ ~q.ret.exc
               /\ q.ret.val[k_success] = PyTrue
               /\ q.ret.val[k_confidence] = Quote(<<"l","o","w">>)
               /\ IsStrValue(q.ret.val[k_answer])
               /\ Contains(Unquote(q.ret.val[k_answer]), SubSeq(q.text, 1, MinOf(500, Len(q.text))))
               /\ q.ret.val[k_relevant_excerpt]
                     = Quote(SubSeq(q.text, 1, MinOf(200, Len(q.text))))

\* the model call of an Ask request over a text of more than 500 characters
\* failed, with a vector index built
C9_LongTextCallFailed ==
    \E r \in Slots :
        LET q == requests[r]
        IN  /\ Done(q)
            /\ q.flow = "ask"
            /\ q.raw = <<>>
            /\ q.remote_calls = 1
            /\ Len(q.text) > 500
            /\ q.vector_store.kind = "faiss"

\* C10: for the fenced JSON object of scenario 3 summarize_text returns
\* exactly success true, summary "X", word_count 1 and key_topics [], and
\* no other field
C10_ExactlyTheSummaryFields ==
    \A r \in Slots :
        LET q == requests[r]
        IN  (Done(q) /\ q.flow = "summarize" /\ q.raw = ReplySummaryFenced) =>
               q.ret = Returned((k_success :> PyTrue)
                                @@ (k_summary :> Quote(<<"X">>))
                                @@ (k_word_count :> IntText(1))
                                @@ (k_key_topics :> EmptyList))

---------------------------------------------------------------------------
(* The functions on their own: Init draws the input, the action applies    *)
(* the function to it                                                      *)

\* the page numbers parse_llm_json is tried with
MaxPageNumber == 2

AllReplies ==
    Replies("process") \cup Replies("ask") \cup Replies("summarize")
    \cup Replies("extract") \cup {ReplyGarbage, ReplyOtherObject, ReplyList, ReplyBlank}

\* a reply as the model may wrap it: fenced, after a remark, padded
Fenced(t) == Fence \o <<"\n">> \o t \o <<"\n">> \o Fence
InProse(t) == <<"O","k",":"," ">> \o t
Padded(t) == <<" ">> \o t \o <<"\n">>

RawTexts ==
    {<<>>} \cup AllReplies \cup {Fenced(t) : t \in AllReplies}
    \cup {InProse(t) : t \in AllReplies}

AllOutcomes ==
    {RemoteRaises, RemoteReturns(NoneValue)}
    \cup {RemoteReturns(t) : t \in AllReplies} \cup {RemoteReturns(Padded(t)) : t \in AllReplies}

\* the user_id build_vector_store and load_vector_store are called with
ProbeUserIds ==
    {<<>>, <<".">>, <<".", ".">>, <<"/">>, <<"\\">>, <<".", ".", "/", "x">>,
     <<"a", "/", "b">>, <<"d","e","f","a","u","l","t">>, <<"U", "-", "1", "_", "z">>}

\* the texts build_vector_store is called with
BuildTexts == {DocPages, DocBlank, <<>>}

BuildProbes ==
    {[NoProbe EXCEPT !.fn = "build_vector_store", !.text = t, !.user_id = u,
                     !.fault = f] :
        t \in BuildTexts, u \in ProbeUserIds, f \in BuildFaults}

\* the texts segment_pages and chunk_text are called with: empty and blank
\* ones, pages divided by a rule, a form feed and a page line, a rule that
\* divides nothing, paragraphs of several lengths, one long paragraph
TextRule == <<"O","n","e",".","\n","-","-","-","\n","T","w","o",".">>
TextFormFeed == <<"O","n","e",".","\f","T","w","o",".","\n","\n","M","o","r","e">>
TextPageLine == <<"I","n","t","r","o","\n","P","a","g","e"," ","3","\n","B","o","d","y">>
TextRuleFirst == <<"\n","-","-","-","\n","T","w","o",".">>
TextParagraphs ==
    <<"P","a","r","a"," ","o","n","e",".","\n","\n","P","a","r","a"," ","t","w","o",
      ".","\n","\n","P","a","r","a"," ","t","h","r","e","e",".">>
TextShortParagraphs == <<"a","b","c","d","e","\n","\n","f","g","h","i","j","\n","\n","k">>
TextPadded == <<" ","a"," ","\n","\n","\n","\n"," ","b","c"," ","\n">>
TextOneParagraph == <<"T","h","e"," ","q","u","i","c","k"," ","f","o","x",".">>
TextLines == <<"a","b",".","\n","c","d"," ","e","f",".",".",".","\n","\n","g">>

PlainTexts ==
    {<<>>, DocBlank, TextRule, TextFormFeed, TextPageLine, TextRuleFirst, TextParagraphs,
     TextShortParagraphs, TextPadded, TextOneParagraph, TextLines}

\* the max_chars_per_page segment_pages is called with
PageSizes == {0, 5, 10, 12, DefaultMaxCharsPerPage}

\* the chunk_size and chunk_overlap chunk_text is called with
ChunkSizes == {5, 10, DefaultChunkSize}
ChunkOverlaps == {0, 3, DefaultChunkOverlap}

ProbeInputs ==
    {[NoProbe EXCEPT !.fn = "parse_llm_json", !.raw = t, !.page_number = n] :
        t \in RawTexts, n \in 1..MaxPageNumber}
    \cup {[NoProbe EXCEPT !.fn = "call_perplexity", !.outcome = o] : o \in AllOutcomes}
    \cup BuildProbes
    \cup {[NoProbe EXCEPT !.fn = "segment_pages", !.text = t, !.size = n] :
            t \in PlainTexts, n \in PageSizes}
    \cup {[NoProbe EXCEPT !.fn = "chunk_text", !.text = t, !.size = n, !.overlap = o] :
            t \in PlainTexts, n \in ChunkSizes, o \in ChunkOverlaps}

InitFunctions ==
    /\ InitService
    /\ probe \in ProbeInputs

parse_llm_json_call ==
    /\ probe.fn = "parse_llm_json"
    /\ ~probe.done
    /\ probe' = [probe EXCEPT !.done = TRUE,
                              !.out = parse_llm_json(probe.raw, probe.page_number)]
    /\ UNCHANGED <<env, requests, served>>
    /\ NoBuild

call_perplexity_call ==
    /\ probe.fn = "call_perplexity"
    /\ ~probe.done
    /\ probe' = [probe EXCEPT !.done = TRUE, !.out = call_perplexity(probe.outcome)]
    /\ UNCHANGED <<env, requests, served>>
    /\ NoBuild

\* build_vector_store(text, user_id) called on its own
build_vector_store_call ==
    /\ probe.fn = "build_vector_store"
    /\ ~probe.done
    /\ UNCHANGED <<env, requests, served>>
    /\ \E b \in {build_vector_store(probe.text, probe.user_id, probe.fault # "load",
                                     probe.fault # "index", probe.fault # "save")} :
          /\ probe' = [probe EXCEPT !.done = TRUE, !.out = b.ret,
                                    !.vector_store = b.ret]
          /\ AfterBuild(b)

\* load_vector_store(user_id) called after the build, with the same user_id
load_vector_store_call ==
    /\ probe.fn = "build_vector_store"
    /\ probe.done
    /\ UNCHANGED <<env, requests, served>>
    /\ \E fault \in {"none", "load", "read"} :
       \E l \in {load_vector_store(probe.user_id, fault # "load", fault # "read")} :
          /\ probe' = [probe EXCEPT !.fn = "load_vector_store", !.fault = fault,
                                    !.out = l.ret]
          /\ AfterBuild(l)

\* the queries and the k retrieve_context is called with
Queries == {<<>>, <<"W","h","y","?">>, DocBlank}
SearchKs == {0, 1, 4, 5}

\* retrieve_context(vector_store, query, k) called with what the build
\* returned, an index or None
retrieve_context_call ==
    /\ probe.fn = "build_vector_store"
    /\ probe.done
    /\ UNCHANGED <<env, requests, served>>
    /\ NoBuild
    /\ \E query \in Queries, k \in SearchKs, search_ok \in BOOLEAN :
          probe' = [probe EXCEPT
                      !.fn = "retrieve_context", !.text = query, !.size = k,
                      !.fault = IF search_ok THEN "none" ELSE "search",
                      !.out = retrieve_context(probe.vector_store, query, k, search_ok)]

\* segment_pages(text, max_chars_per_page) called on its own
segment_pages_call ==
    /\ probe.fn = "segment_pages"
    /\ ~probe.done
    /\ probe' = [probe EXCEPT !.done = TRUE,
                              !.out = segment_pages(probe.text, probe.size)]
    /\ UNCHANGED <<env, requests, served>>
    /\ NoBuild

\* chunk_text(text, chunk_size, chunk_overlap) called on its own
chunk_text_call ==
    /\ probe.fn = "chunk_text"
    /\ ~probe.done
    /\ probe' = [probe EXCEPT !.done = TRUE,
                              !.out = chunk_text(probe.text, probe.size, probe.overlap)]
    /\ UNCHANGED <<env, requests, served>>
    /\ NoBuild

NextFunctions ==
    \/ parse_llm_json_call
    \/ call_perplexity_call
    \/ build_vector_store_call
    \/ load_vector_store_call
    \/ retrieve_context_call
    \/ segment_pages_call
    \/ chunk_text_call

SpecFunctions == InitFunctions /\ [][NextFunctions]_vars

Called(fn) == probe.fn = fn /\ probe.done

\* whether t is s without the whitespace at its two ends
StrippedOf(t, s) ==
    /\ t # <<>> => t[1] \notin WS /\ t[Len(t)] \notin WS
    /\ \E a \in 0..Len(s) :
          /\ a + Len(t) <= Len(s)
          /\ SubSeq(s, a + 1, a + Len(t)) = t
          /\ \A i \in 1..a : s[i] \in WS
          /\ \A i \in (a + Len(t) + 1)..Len(s) : s[i] \in WS

C8_ParserGivesRequiredKeys ==
    Called("parse_llm_json") => PageFields \subseteq DOMAIN probe.out

---------------------------------------------------------------------------
(* The name of the persisted index                                         *)

SafeCharacters == Letters \cup Digits \cup {"_", "-"}

\* whether name is user_id with every character outside [A-Za-z0-9_-]
\* replaced by "_"
SanitizedOf(name, user_id) ==
    /\ Len(name) = Len(user_id)
    /\ \A i \in DOMAIN user_id :
          name[i] = IF user_id[i] \in SafeCharacters THEN user_id[i] ELSE "_"

\* C11: the name an index is persisted under matches [A-Za-z0-9_-]+ and is
\* the user_id with every other character replaced by "_", for every
\* user_id, the empty one included; and load_vector_store finds under the
\* same user_id the index build_vector_store saved
C11_SafeNameForEveryUserId ==
    /\ (probe.fn \in {"build_vector_store", "load_vector_store"} /\ probe.done) =>
          \A name \in DOMAIN vector_stores :
              /\ name # <<>>
              /\ \A i \in DOMAIN name : name[i] \in SafeCharacters
              /\ SanitizedOf(name, probe.user_id)
    /\ (Called("load_vector_store") /\ vector_stores # EmptyDict
           /\ probe.fault = "none") =>
          /\ probe.out.kind = "faiss"
          /\ probe.out \in {vector_stores[n] : n \in DOMAIN vector_stores}

---------------------------------------------------------------------------
(* retrieve_context                                                        *)

\* C12: retrieve_context returns the empty string for every query and k
\* when the index is None, and when the similarity search raises
C12_EmptyContextWithoutSearch ==
    (Called("retrieve_context")
       /\ (probe.vector_store = NoStore \/ probe.fault = "search")) =>
        probe.out = <<>>

\* the search over a built index raised, and the context is empty; the same
\* search returning gives the chunk of the index
C12_SearchRaised ==
    /\ Called("retrieve_context")
    /\ probe.vector_store.kind = "faiss"
    /\ probe.vector_store.chunks # <<>>
    /\ probe.size = 4
    /\ probe.fault = "search"
    /\ probe.out = <<>>
    /\ retrieve_context(probe.vector_store, probe.text, probe.size, TRUE) # <<>>

---------------------------------------------------------------------------
(* build_vector_store                                                      *)

\* C13: build_vector_store returns None and leaves the directory of the
\* persisted indexes as it was when FAISS is missing, when there is no
\* embedding model, when the text is empty or whitespace only (no chunks),
\* or when the construction of the index raises
C13_NoIndexWithoutItsParts ==
    (Called("build_vector_store")
       /\ \/ ~HAS_FAISS
          \/ _embeddings = NoneValue
          \/ IsBlank(probe.text)
          \/ probe.fault = "index") =>
        /\ probe.out = NoStore
        /\ vector_stores = EmptyDict

\* everything is installed and the model is loaded, the text is whitespace
\* only: no index is returned and none is saved
C13_BlankTextNoIndex ==
    /\ Called("build_vector_store")
    /\ HAS_FAISS
    /\ HAS_LANGCHAIN
    /\ _embeddings = EmbeddingModel
    /\ probe.text = DocBlank
    /\ probe.fault = "none"
    /\ probe.out = NoStore
    /\ vector_stores = EmptyDict

---------------------------------------------------------------------------
(* segment_pages                                                           *)

\* C14: segment_pages returns at least one page for every text, and for the
\* empty text exactly one page, the empty string
C14_AtLeastOnePage ==
    Called("segment_pages") =>
        /\ Len(probe.out) >= 1
        /\ probe.text = <<>> => probe.out = << <<>> >>

\* segment_pages was called with the empty text and returned one empty page
C14_EmptyTextOnePage ==
    /\ Called("segment_pages")
    /\ probe.text = <<>>
    /\ probe.size = DefaultMaxCharsPerPage
    /\ probe.out = << <<>> >>

\* s without its whitespace
NonWs(s) == SelectSeq(s, LAMBDA c : c \notin WS)

\* whether a occurs in b as a subsequence (in order, not necessarily in one
\* piece)
RECURSIVE IsSubsequence(_, _)
IsSubsequence(a, b) ==
    IF a = <<>> THEN TRUE
    ELSE IF b = <<>> THEN FALSE
    ELSE IF a[1] = b[1] THEN IsSubsequence(Tail(a), Tail(b))
    ELSE IsSubsequence(a, Tail(b))

\* whether g is the text, without whitespace, of zero or more page markers:
\* rules "---" and lines "Page N" (a form feed is whitespace)
RECURSIVE IsMarkerText(_)
IsMarkerText(g) ==
    \/ g = <<>>
    \/ HasAt(g, 1, <<"-", "-", "-">>) /\ IsMarkerText(Suffix(g, 4))
    \/ /\ HasPageAt(g, 1)
       /\ \E d \in 5..Len(g) :
             /\ \A j \in 5..d : g[j] \in Digits
             /\ IsMarkerText(Suffix(g, d + 1))

\* whether t is the pages from the i-th on, each without its whitespace, in
\* order, with nothing but page markers before, between and after them
RECURSIVE CoversFrom(_, _, _)
CoversFrom(t, pages, i) ==
    IF i > Len(pages) THEN IsMarkerText(t)
    ELSE \E g \in 0..Len(t) :
            /\ IsMarkerText(Prefix(t, g))
            /\ HasAt(t, g + 1, NonWs(pages[i]))
            /\ CoversFrom(Suffix(t, g + 1 + Len(NonWs(pages[i]))), pages, i + 1)

\* whether text has a form feed, a rule or the word "page" in it
HasMarkerCharacters(text) ==
    \E i \in DOMAIN text :
        text[i] = "\f" \/ HasAt(text, i, <<"-", "-", "-">>) \/ HasPageAt(text, i)

---------------------------------------------------------------------------
(* chunk_text                                                              *)

\* the boundary unit: the two characters that join two paragraphs
BoundaryUnit == 2

\* whether the chunks from the i-th on, each without its whitespace, lie in
\* t in order, the i-th beginning no later than position reach + 1 (no gap
\* after what came before) and the last one ending where t ends
RECURSIVE ChunksCover(_, _, _, _)
ChunksCover(t, chunks, i, reach) ==
    IF i > Len(chunks) THEN reach = Len(t)
    ELSE \E at \in 1..(reach + 1) :
            /\ HasAt(t, at, NonWs(chunks[i]))
            /\ at + Len(NonWs(chunks[i])) - 1 >= reach
            /\ ChunksCover(t, chunks, i + 1, at + Len(NonWs(chunks[i])) - 1)

\* C16: for a text that is not blank every chunk chunk_text returns is at
\* most chunk_size plus one boundary unit long, for every chunk_size and
\* chunk_overlap, and the chunks in order cover the text
C16_ChunksBoundedAndCovering ==
    (Called("chunk_text") /\ ~IsBlank(probe.text)) =>
        /\ \A i \in DOMAIN probe.out : Len(probe.out[i]) <= probe.size + BoundaryUnit
        /\ ChunksCover(NonWs(probe.text), probe.out, 1, 0)

---------------------------------------------------------------------------
(* Requests whose model call never completes                               *)

\* the request has been accepted and has not returned
Accepted(q) == q.pc \in {"gather", "await", "stalled"}

\* C17: every request that was accepted eventually returns a result, also
\* when a model call of it never completes
C17_EveryRequestReturns ==
    \A r \in Slots : Accepted(requests[r]) ~> Done(requests[r])

---------------------------------------------------------------------------
(* The request layer                                                       *)

\* C18: a request of any of the four endpoints whose text is empty or
\* whitespace only, and a question of /ask that is, is rejected and never
\* enters its flow; the step that rejects it builds no index, calls
\* get_embeddings not at all, loads no model and makes no model call
C18_RejectedBeforeTheCore ==
    [][\A r \in Slots :
          LET q == requests'[r]
          IN  /\ (q.pc \in {"gather", "await", "done"}) =>
                    /\ ~IsBlank(q.text)
                    /\ q.flow = "ask" => ~IsBlank(q.question)
              /\ (q.pc = "rejected" /\ requests[r].pc = "idle") =>
                    /\ log' = log
                    /\ _embeddings' = _embeddings
                    /\ _embeddings_init_attempted' = _embeddings_init_attempted
                    /\ vector_stores' = vector_stores
                    /\ q.vector_store = NoStore
                    /\ q.remote_calls = 0
                    /\ q.tasks = <<>>]_vars

\* /extract rejected a blank text as the first request of the process:
\* nothing was loaded and nothing was built
C18_BlankTextRejected ==
    \E r \in Slots :
        /\ requests[r].pc = "rejected"
        /\ requests[r].flow = "extract"
        /\ requests[r].text = DocBlank
        /\ HAS_FAISS /\ HAS_EMBEDDINGS
        /\ served = 1
        /\ log = NoLog
        /\ ~_embeddings_init_attempted

---------------------------------------------------------------------------
(* segment_pages: the packing of paragraphs                                *)

ParagraphBreak == <<"\n", "\n">>

\* whether segment_pages packs the text by paragraph: the text is not blank
\* and its page markers divide it into no more than one page
PackedByParagraph(text) ==
    ~IsBlank(text) /\ Len(StripNonBlank(SplitMarkers(text))) <= 1

\* whether the pages from the j-th on are the paragraphs from the i-th on,
\* in order, each page a run of whole paragraphs joined as they were in the
\* text and stripped (a run of nothing but whitespace makes no page)
RECURSIVE PagesOfParagraphs(_, _, _, _)
PagesOfParagraphs(paragraphs, pages, i, j) ==
    IF i > Len(paragraphs) THEN j > Len(pages)
    ELSE \E b \in i..Len(paragraphs) :
            LET run == Strip(Join(SubSeq(paragraphs, i, b), ParagraphBreak))
            IN  \/ run = <<>> /\ PagesOfParagraphs(paragraphs, pages, b + 1, j)
                \/ /\ j <= Len(pages)
                   /\ run = pages[j]
                   /\ PagesOfParagraphs(paragraphs, pages, b + 1, j + 1)

\* C19: when segment_pages packs by paragraph, every page is at most
\* max_chars_per_page long unless it is a single paragraph, no paragraph is
\* divided between pages and the paragraphs keep their order
C19_PagesBoundedParagraphsWhole ==
    (Called("segment_pages") /\ PackedByParagraph(probe.text)) =>
        /\ \A i \in DOMAIN probe.out :
              \/ Len(probe.out[i]) <= probe.size
              \/ ~Contains(probe.out[i], ParagraphBreak)
        /\ PagesOfParagraphs(SplitOn(probe.text, ParagraphBreak), probe.out, 1, 1)

---------------------------------------------------------------------------
(* An index that could not be saved                                        *)

\* C20: when the index of a request was built and its save raised, the
\* request has the index of the chunks of its text all the same, and every
\* page task and the question retrieve from it what they retrieve from an
\* index that was saved: the first 4 (for a page) or 5 (for the question)
\* chunks found, or nothing when the search itself raises
C20_UnsavedIndexServesTheRequest ==
    \A r \in Slots :
        LET q == requests[r]
        IN  (q.save_failed \/ q.vector_store.kind = "faiss") =>
               With(FaissIndex(chunk_text(q.text, DefaultChunkSize, DefaultChunkOverlap)),
                    LAMBDA index :
                   /\ q.vector_store = index
                   /\ \A i \in DOMAIN q.tasks :
                         q.tasks[i].pc = "await" =>
                            q.tasks[i].context
                               \in {retrieve_context(index, q.pages[i], 4, ok) :
                                       ok \in BOOLEAN}
                   /\ (q.flow = "ask" /\ q.pc = "await") =>
                         q.context \in {retrieve_context(index, q.question, 5, ok) :
                                          ok \in BOOLEAN})

\* the save of the index of a /process request raised, nothing is in the
\* directory, and a page task waits for the model with the context it
\* retrieved from the index
C20_PageServedFromUnsavedIndex ==
    \E r \in Slots :
        LET q == requests[r]
        IN  /\ q.save_failed
            /\ vector_stores = EmptyDict
            /\ q.flow = "process"
            /\ Len(q.pages) = 3
            /\ q.tasks[2].pc = "await"
            /\ q.tasks[2].context # <<>>
            /\ q.tasks[2].context = Join(q.vector_store.chunks, ContextSeparator)

---------------------------------------------------------------------------
(* ask_document: the choice of the answer                                  *)

\* the degraded answer of ask_document for a text
AskDegraded(text) ==
    (k_success :> PyTrue)
    @@ (k_answer :> Quote(AskFallbackIntro \o SubSeq(text, 1, MinOf(500, Len(text)))
                          \o AskFallbackNote))
    @@ (k_confidence :> Quote(<<"l","o","w">>))
    @@ (k_relevant_excerpt :> Quote(SubSeq(text, 1, MinOf(200, Len(text)))))

\* C21: when the model output is not empty and the parsed object has an
\* answer, ask_document returns the fields of the object with success true;
\* else when the object has a simplified_text, that text is the answer with
\* confidence "medium" and an empty relevant_excerpt; otherwise, and when
\* the model output is empty, it returns the degraded answer quoting the
\* text with confidence "low"
C21_AnswerChosenInOrder ==
    \A r \in Slots :
        LET q == requests[r]
        IN  (Done(q) /\ q.flow = "ask") =>
               With(parse_llm_json(q.raw, 1), LAMBDA result :
                   /\ ~q.ret.exc
                   /\ IF q.raw # <<>> /\ k_answer \in DOMAIN result
                      THEN /\ q.ret.val[k_success] = PyTrue
                           /\ \A f \in DOMAIN result \ {k_success} :
                                 f \in DOMAIN q.ret.val /\ q.ret.val[f] = result[f]
                      ELSE IF q.raw # <<>> /\ k_simplified_text \in DOMAIN result
                      THEN q.ret.val = (k_success :> PyTrue)
                                       @@ (k_answer :> result[k_simplified_text])
                                       @@ (k_confidence :> Quote(<<"m","e","d","i","u","m">>))
                                       @@ (k_relevant_excerpt :> Quote(<<>>))
                      ELSE q.ret.val = AskDegraded(q.text))

---------------------------------------------------------------------------
(* process_document: one index for all page tasks                          *)

\* C22: the step that accepts a Simplify request builds the index once,
\* from the whole text, with no page task started; from then on no step of
\* the request builds, loads or saves anything or changes the index of the
\* request; and a page task that starts asks that index, if there is one,
\* for k = 4 chunks with the text of its own page as the query
C22_OneIndexForAllPages ==
    [][\A r \in Slots :
          LET q == requests[r]
              n == requests'[r]
          IN  /\ (q.pc = "idle" /\ n.pc = "gather") =>
                    /\ \A i \in DOMAIN n.tasks : n.tasks[i] = PendingTask
                    /\ n.vector_store
                          \in {NoStore,
                               FaissIndex(chunk_text(n.text, DefaultChunkSize,
                                                     DefaultChunkOverlap))}
                    /\ log'.calls = log.calls + (IF HAS_FAISS THEN 1 ELSE 0)
              /\ q.pc = "gather" =>
                    /\ n.vector_store = q.vector_store
                    /\ log' = log
                    /\ vector_stores' = vector_stores
                    /\ _embeddings' = _embeddings
                    /\ \A i \in DOMAIN q.tasks :
                          IF q.tasks[i].pc = "pending" /\ n.tasks[i].pc # "pending"
                          THEN /\ n.tasks[i].search
                                    = IF q.vector_store = NoStore THEN NoSearch
                                      ELSE [query |-> q.pages[i], k |-> 4]
                               /\ n.tasks[i].context
                                    \in {retrieve_context(q.vector_store, q.pages[i], 4, ok) :
                                            ok \in BOOLEAN}
                          ELSE n.tasks[i].search = q.tasks[i].search]_vars

\* the three page tasks of a request have all asked the index built from
\* the whole text, each with its own page and k = 4, and the process has
\* called get_embeddings once
C22_ThreePagesOneIndex ==
    \E r \in Slots :
        LET q == requests[r]
        IN  /\ q.flow = "process"
            /\ q.pc = "gather"
            /\ Len(q.pages) = 3
            /\ q.vector_store.kind = "faiss"
            /\ q.vector_store.chunks = <<q.text>>
            /\ log.calls = 1
            /\ \A i \in 1..3 : q.tasks[i].search = [query |-> q.pages[i], k |-> 4]
            /\ q.tasks[1].pc = "done"
            /\ q.tasks[3].pc = "await"

---------------------------------------------------------------------------
(* parse_llm_json: an object embedded in other text                        *)

\* C23: for a raw text that is a remark followed by a valid JSON object (so
\* not valid JSON itself), parse_llm_json returns the members of that
\* object with the page number, whatever the values of the object are
C23_EmbeddedObjectReturned ==
    (Called("parse_llm_json") /\ probe.raw # <<>>) =>
        \A t \in AllReplies :
            With(json_loads(t), LAMBDA embedded :
                (probe.raw = InProse(t) /\ embedded.kind = "dict") =>
                    probe.out = WithPageNumber(embedded.obj, probe.page_number))

---------------------------------------------------------------------------
(* summarize_text: no retrieval                                            *)

\* C24: a step of a Summarize request, from its acceptance to its return,
\* changes neither the embedding globals, the counters of get_embeddings
\* nor any persisted index, the request holds no index and no retrieved
\* context, and a Summarize request that has returned has called
\* call_perplexity exactly once (with at most one remote request)
C24_SummarizeRetrievesNothing ==
    [][\A r \in Slots :
          LET q == requests[r]
              n == requests'[r]
          IN  ((q.pc = "idle" /\ n.flow = "summarize")
               \/ (q.flow = "summarize" /\ q.pc = "await")) =>
                  /\ _embeddings' = _embeddings
                  /\ _embeddings_init_attempted' = _embeddings_init_attempted
                  /\ vector_stores' = vector_stores
                  /\ log' = log
                  /\ n.vector_store = NoStore
                  /\ n.context = <<>>
                  /\ n.pc \in {"await", "done"} =>
                        /\ n.model_calls = 1
                        /\ n.remote_calls = IF NoRemoteCall THEN 0 ELSE 1]_vars

\* a Summarize request answered by the model has returned in a process that
\* holds loaded embeddings and a persisted index from an earlier request
C24_SummarizedBesideAnIndex ==
    \E r \in Slots :
        LET q == requests[r]
        IN  /\ q.flow = "summarize"
            /\ Done(q)
            /\ q.raw = ReplySummaryOnly
            /\ q.model_calls = 1
            /\ q.remote_calls = 1
            /\ _embeddings # NoneValue
            /\ log.calls = 1
            /\ DOMAIN vector_stores # {}

---------------------------------------------------------------------------
(* process_document: the page numbers of the result                        *)

\* C25: in the result of a Simplify request the page at position i (from 1
\* here, from 0 in the source) has page_number i (i + 1 in the source),
\* whether the model's object carried another page_number, carried none, or
\* the page is the mock response
C25_PageNumberIsPosition ==
    \A r \in Slots :
        LET q == requests[r]
        IN  (ProcessDone(q) /\ ~q.ret.exc) =>
               \A i \in DOMAIN q.ret.val[k_pages] :
                   With(q.ret.val[k_pages][i], LAMBDA page :
                       /\ k_page_number \in DOMAIN page
                       /\ page[k_page_number] = IntText(i))

\* the model gave the first page an object with page_number 7, nothing for
\* the second and an object without a page_number for the third
C25_NumbersFromEverySource ==
    \E r \in Slots :
        LET q == requests[r]
        IN  /\ ProcessDone(q)
            /\ Len(q.ret.val[k_pages]) = 3
            /\ q.tasks[1].raw_response = ReplySimplifyFull
            /\ json_loads(ReplySimplifyFull).obj[k_page_number] = <<"7">>
            /\ q.tasks[2].raw_response = <<>>
            /\ q.tasks[3].raw_response = ReplySimplifiedOnly
            /\ \A i \in 1..3 : q.ret.val[k_pages][i][k_page_number] = IntText(i)

---------------------------------------------------------------------------
(* ask_document, summarize_text, extract_key_points: success               *)

\* the field a flow requires of the object of the model
RequiredField(flow) ==
    CASE flow = "ask" -> k_answer
      [] flow = "summarize" -> k_summary
      [] flow = "extract" -> k_key_points

\* C26: when Ask, Summarize or Extract returns what it built from an object
\* of the model that has the required field of the flow, success is true
\* in the result, whatever other members the object has
C26_AcceptedResponseIsSuccess ==
    \A r \in Slots :
        LET q == requests[r]
        IN  (Done(q) /\ q.flow \in {"ask", "summarize", "extract"} /\ q.raw # <<>>) =>
               (RequiredField(q.flow) \in DOMAIN parse_llm_json(q.raw, 1)
                  => /\ ~q.ret.exc
                     /\ q.ret.val[k_success] = PyTrue)

---------------------------------------------------------------------------
(* Interleaved requests of one user                                        *)

\* the index build_vector_store makes of the text of the request
OwnIndex(q) == FaissIndex(chunk_text(q.text, DefaultChunkSize, DefaultChunkOverlap))

\* C27: with two requests of one user in flight, the index each request
\* holds is the one built from its own text, and the context every page
\* task and every Ask has retrieved is the context of that index, also
\* when the other request has by then saved its index over the persisted
\* one
C27_OwnIndexAnswers ==
    \A r \in InterleavedSlots :
        LET q == requests[r]
        IN  /\ q.pc \in {"gather", "await"} => q.vector_store \in {NoStore, OwnIndex(q)}
            /\ (q.flow = "process" /\ q.pc = "gather") =>
                  \A i \in DOMAIN q.tasks :
                      q.tasks[i].pc = "await" =>
                          q.tasks[i].context
                             \in {retrieve_context(OwnIndex(q), q.pages[i], 4, ok) :
                                     ok \in BOOLEAN}
            /\ (q.flow = "ask" /\ q.pc = "await") =>
                  q.context \in {retrieve_context(OwnIndex(q), q.question, 5, ok) :
                                   ok \in BOOLEAN}

\* the first page task of a Simplify request retrieved its context, then an
\* Ask request of the same user with another text built its index and saved
\* it over the one of the Simplify request and is suspended in its model
\* call, then the third page task retrieved its context: from the text of
\* its own request
C27_RetrievedAfterOverwrite ==
    \E r \in InterleavedSlots, o \in InterleavedSlots :
        LET q == requests[r]
            other == requests[o]
        IN  /\ q.flow = "process" /\ q.pc = "gather"
            /\ other.flow = "ask" /\ other.pc = "await"
            /\ other.text # q.text
            /\ other.store_path = q.store_path
            /\ vector_stores[q.store_path] = OwnIndex(other)
            /\ vector_stores[q.store_path] # q.vector_store
            /\ Len(q.pages) = 3
            /\ q.tasks[1].builds = 1
            /\ q.tasks[3].builds = 2
            /\ q.tasks[3].pc = "await"
            /\ q.tasks[3].context = q.text
            /\ other.context # <<>>
            /\ other.context = retrieve_context(OwnIndex(other), other.question, 5, TRUE)

=============================================================================
